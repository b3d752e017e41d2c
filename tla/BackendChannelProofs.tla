-------------------------- MODULE BackendChannelProofs --------------------------
(***************************************************************************)
(* Proofs about BackendChannel, for any threads and forked processes, any  *)
(* number and sizes of messages, and any socket: what the other end        *)
(* handles is a selection of what was begun on the wire, in its order, and *)
(* all of it while the socket takes blocks whole.  The invariant follows a *)
(* message from push over queue, hand and wire to the other end:           *)
(* Once and InOrder say where it is begun, Follows that handle_read keeps  *)
(* the order, Kept and Whence that nothing is lost or cut.                 *)
(***************************************************************************)
EXTENDS BackendChannel, SequenceTheorems, TLAPS

Units == {Term} \union (Pushers \X (1 .. Messages) \X Nat)
Size(m) == BodySize(m[1], m[2]) + 1

\* What is left of a message after its first n units.
Piece(m, n) == [i \in 1 .. Size(m) - n |-> Serialized(m)[n + i]]
Pieces == UNION {{Piece(m, n) : n \in 0 .. Size(m) - 1} : m \in AllMessages}

\* A block with the beginning of a message, and the message.
Whole(b) == b # <<>> /\ b[1][3] = 1
Name(b)  == <<b[1][1], b[1][2]>>

TypeOK ==
    /\ forked \subseteq Children /\ closed \subseteq Procs
    /\ lock \in [Procs -> Pushers \union {Free}]
    /\ fifo \in [Procs -> Seq(Pieces)]
    /\ pushed \in [Pushers -> 0 .. Messages]
    /\ sending \subseteq Senders /\ checked \subseteq sending
    /\ hand \in [Senders -> Pieces \union {<<>>}]
    /\ wire \in Seq(Units) /\ Len(wire) <= Capacity /\ line \in Seq(Units)
    /\ got \in Seq(AllMessages) /\ written \in Seq(AllMessages)
    /\ raised \in BOOLEAN /\ short \in BOOLEAN

\* Who is in push holds channel_lock.  A child whose lock was copied while a thread
\* held it, or whose channel was copied closed, never sends.
Holding ==
    /\ \A t \in Pushers : t \in sending <=> lock[ProcOf(t)] = t
    /\ \A t \in Senders : hand[t] # <<>> => t \in sending \ checked
    /\ lock[Runtime] \in Threads \union {Free}
    /\ \A c \in Children :
          /\ lock[c] \in Threads \union {c, Free}
          /\ c \notin forked => lock[c] = Free
          /\ c \notin forked \/ lock[c] \in Threads => pushed[c] = 0
          /\ c \in closed => c \notin checked /\ hand[c] = <<>>
Live(p) == p \in Children => lock[p] \notin Threads /\ p \notin closed

\* No message is left to begin in a queue when channel_lock is free, unless the
\* channel is closed.
Drained ==
    \A p \in Procs : lock[p] = Free /\ p \notin closed => \A i \in DOMAIN fifo[p] : ~Whole(fifo[p][i])

\* A message begins with the i-th block in the queue of p; with the block in the
\* hands of t; it is the k-th begun on the wire.
Queued(p, i, m) == i \in DOMAIN fifo[p] /\ Whole(fifo[p][i]) /\ Name(fifo[p][i]) = m
Held(t, m)      == Whole(hand[t]) /\ Name(hand[t]) = m
Wrote(k, m)     == k \in DOMAIN written /\ written[k] = m
Due(m, p)       == ProcOf(m[1]) = p /\ m[2] <= pushed[m[1]] /\ \A k \in Nat : ~Wrote(k, m)

\* Each message is begun in one place: in a queue, in a hand, or on the wire.
OnceQueued ==
    \A p \in Procs, i \in Nat, m \in AllMessages :
       Live(p) /\ Queued(p, i, m) => Due(m, p) /\ \A j \in Nat : Queued(p, j, m) => i = j
OnceHeld ==
    \A t \in Senders, m \in AllMessages :
       Held(t, m) => /\ Due(m, ProcOf(t))
                     /\ \A i \in Nat : ~Queued(ProcOf(t), i, m)
                     /\ \A u \in Senders : Held(u, m) => t = u
OnceWritten ==
    \A k \in Nat, m \in AllMessages :
       Wrote(k, m) => m[2] <= pushed[m[1]] /\ \A l \in Nat : Wrote(l, m) => k = l
Once == OnceQueued /\ OnceHeld /\ OnceWritten

\* The messages m and q of a child are begun in their order: those on the wire,
\* then the one in its hands, then those in its queue.
InOrder ==
    \A c \in Children, m, q \in AllMessages : m[1] = c /\ q[1] = c =>
       /\ \A k, l \in Nat : Wrote(k, m) /\ Wrote(l, q) /\ k < l => m[2] < q[2]
       /\ \A k \in Nat : Wrote(k, m) /\ Held(c, q) => m[2] < q[2]
       /\ Live(c) => \A j \in Nat : Queued(c, j, q) =>
             /\ \A k \in Nat : Wrote(k, m) => m[2] < q[2]
             /\ Held(c, m) => m[2] < q[2]
             /\ \A i \in Nat : Queued(c, i, m) /\ i < j => m[2] < q[2]

\* The other end has handled m, its i-th message; m begins with the i-th unit of those
\* that it has yet to handle.
Stream        == line \o wire
Handled(i, m) == i \in DOMAIN got /\ got[i] = m
Ahead(i, m)   == i \in DOMAIN Stream /\ Stream[i] = <<m[1], m[2], 1>>

\* Both come in the order in which the messages were begun.
Follows ==
    /\ \A i \in Nat, m \in AllMessages : Handled(i, m) \/ Ahead(i, m) => \E k \in Nat : Wrote(k, m)
    /\ \A k, l \in Nat, m, q \in AllMessages : Wrote(k, m) /\ Wrote(l, q) =>
          \A i, j \in Nat :
             /\ Handled(i, m) /\ Handled(j, q) /\ i < j => k < l
             /\ Handled(i, m) /\ Ahead(j, q) => k < l
             /\ Ahead(i, m) /\ Ahead(j, q) /\ i < j => k < l

\* As long as the socket takes blocks whole: every block is a message,
Intact ==
    ~short => /\ \A p \in Procs : \A i \in DOMAIN fifo[p] : Whole(fifo[p][i])
              /\ \A t \in Senders : hand[t] # <<>> => Whole(hand[t])

\* every message pushed is in a queue, in a hand, or begun,
Kept ==
    ~short => \A m \in AllMessages : m[2] <= pushed[m[1]] =>
                 \/ \E k \in DOMAIN written : written[k] = m
                 \/ \E t \in Senders : hand[t] = Serialized(m)
                 \/ \E i \in DOMAIN fifo[ProcOf(m[1])] : fifo[ProcOf(m[1])][i] = Serialized(m)

\* and the stream is made of the messages begun and not handled yet: e[k] units of it
\* come before the end of the k-th message begun.
Ends(e) ==
    LET n == Len(got)
        w == Len(written)
    IN  /\ n <= w /\ \A k \in 1 .. n : got[k] = written[k]
        /\ e[n] = 0 /\ e[w] = Len(Stream)
        /\ \A k \in n + 1 .. w :
              /\ e[k] = e[k - 1] + Size(written[k])
              /\ \A j \in 1 .. Size(written[k]) : Stream[e[k - 1] + j] = Serialized(written[k])[j]
        /\ \A k, l \in n .. w : k <= l => e[k] <= e[l]
Whence ==
    ~short => ~raised /\ (\A i \in DOMAIN line : line[i] # Term) /\ \E e \in [Nat -> Nat] : Ends(e)
-----------------------------------------------------------------------------
(* Messages and blocks *)

LEMMA Serials ==
    ASSUME NEW m \in AllMessages
    PROVE  /\ m[1] \in Pushers /\ m[2] \in 1 .. Messages /\ m = <<m[1], m[2]>>
           /\ Size(m) \in Nat /\ 2 <= Size(m)
           /\ Serialized(m) \in Seq(Units) /\ Len(Serialized(m)) = Size(m)
           /\ \A i \in 1 .. Size(m) - 1 : Serialized(m)[i] = <<m[1], m[2], i>>
           /\ Serialized(m)[Size(m)] = Term
<1> DEFINE n == BodySize(m[1], m[2])
<1>1. m[1] \in Pushers /\ m[2] \in 1 .. Messages /\ m = <<m[1], m[2]>>
  BY DEF AllMessages
<1>2. n \in Nat /\ 1 <= n /\ Messages \in Nat
  BY BackendChannelAssumption
<1>3. Size(m) = n + 1
  BY DEF Size
<1>4. \A i \in 1 .. n : <<m[1], m[2], i>> \in Units
  BY <1>1, <1>2 DEF Units
<1>5. Line(m) = [i \in 1 .. n |-> <<m[1], m[2], i>>]
  BY DEF Line
<1> HIDE DEF n
<1>6. Line(m) \in Seq(Units) /\ Len(Line(m)) = n
  BY <1>2, <1>4, <1>5
<1>7. Term \in Units
  BY DEF Units
<1>8. /\ Serialized(m) \in Seq(Units) /\ Len(Serialized(m)) = n + 1
      /\ \A i \in 1 .. n : Serialized(m)[i] = Line(m)[i]
      /\ Serialized(m)[n + 1] = Term
  BY <1>6, <1>7, AppendProperties DEF Serialized
<1>9. \A i \in 1 .. n : Serialized(m)[i] = <<m[1], m[2], i>>
  BY <1>5, <1>8
<1> QED
  BY <1>1, <1>2, <1>3, <1>8, <1>9

\* The terminator is no unit of a message.
LEMMA NoTerm ==
    /\ Term[3] = 0
    /\ \A m \in AllMessages : \A i : <<m[1], m[2], i>> # Term
<1>1. ASSUME NEW m \in AllMessages, NEW i PROVE <<m[1], m[2], i>> # Term
  <2>1. m[2] # 0
    BY Serials
  <2> QED
    BY <2>1 DEF Term
<1> QED
  BY <1>1 DEF Term

LEMMA SerialUnits ==
    ASSUME NEW m \in AllMessages, NEW i \in 1 .. Size(m)
    PROVE  /\ Serialized(m)[i][3] = 1 <=> i = 1
           /\ Serialized(m)[i] = Term <=> i = Size(m)
<1>1. Size(m) \in Nat /\ 2 <= Size(m) /\ \A j \in 1 .. Size(m) - 1 : Serialized(m)[j] = <<m[1], m[2], j>>
      /\ Serialized(m)[Size(m)] = Term
  BY Serials
<1>2. CASE i = Size(m)
  BY <1>1, <1>2, NoTerm
<1>3. CASE i # Size(m)
  <2>1. Serialized(m)[i] = <<m[1], m[2], i>>
    BY <1>1, <1>3
  <2> QED
    BY <2>1, <1>3, NoTerm
<1> QED
  BY <1>2, <1>3

\* A message is one block: push cuts only what does not fit in ac_out_buffer_size.
LEMMA OneBlock ==
    ASSUME FitsBlock, NEW m \in AllMessages
    PROVE  Blocks(Serialized(m)) = <<Serialized(m)>>
<1> DEFINE u == Serialized(m)
           n == (Len(u) + Block - 1) \div Block
<1>1. u \in Seq(Units) /\ Len(u) \in Nat /\ 2 <= Len(u) /\ Len(u) <= Block /\ Block \in Nat /\ Block > 0
  BY Serials, BackendChannelAssumption DEF FitsBlock, Fits, Size
<1> HIDE DEF u
<1>2. n = 1
  <2> DEFINE x == Len(u) + Block - 1
  <2>1. x \in Nat /\ Block <= x /\ x < 2 * Block
    BY <1>1
  <2> HIDE DEF x
  <2>2. x \div Block = 1
    BY <2>1, <1>1
  <2> QED
    BY <2>2 DEF x
<1>3. Least(1 * Block, Len(u)) = Len(u) /\ (1 - 1) * Block + 1 = 1
  BY <1>1 DEF Least
<1>4. SubSeq(u, 1, Len(u)) = u
  BY <1>1
<1>5. Blocks(u) = [i \in 1 .. n |-> SubSeq(u, (i - 1) * Block + 1, Least(i * Block, Len(u)))]
  BY DEF Blocks
<1> HIDE DEF n
<1>6. Blocks(u) = [i \in 1 .. 1 |-> SubSeq(u, (i - 1) * Block + 1, Least(i * Block, Len(u)))]
  BY <1>2, <1>5
<1>7. Blocks(u) = [i \in 1 .. 1 |-> u]
  BY <1>3, <1>4, <1>6
<1>8. [i \in 1 .. 1 |-> u] = <<u>>
  OBVIOUS
<1> QED
  BY <1>7, <1>8 DEF u

LEMMA Piecewise ==
    ASSUME NEW m \in AllMessages, NEW n \in 0 .. Size(m) - 1
    PROVE  LET b == Piece(m, n)
           IN  /\ b \in Pieces /\ b \in Seq(Units) /\ b # <<>> /\ Len(b) = Size(m) - n
               /\ \A i \in 1 .. Len(b) : b[i] = Serialized(m)[n + i]
               /\ \A i \in 2 .. Len(b) : b[i][3] # 1
               /\ Whole(b) <=> b = Serialized(m)
               /\ Whole(b) <=> n = 0
               /\ Whole(b) => Name(b) = m
               /\ \A k \in 0 .. Len(b) - 1 : SubSeq(b, k + 1, Len(b)) = Piece(m, n + k)
<1> DEFINE b == Piece(m, n)
<1>1. /\ m = <<m[1], m[2]>> /\ Size(m) \in Nat /\ 2 <= Size(m)
      /\ Serialized(m) \in Seq(Units) /\ Len(Serialized(m)) = Size(m)
      /\ Serialized(m)[1] = <<m[1], m[2], 1>>
  <2>1. /\ m = <<m[1], m[2]>> /\ Size(m) \in Nat /\ 2 <= Size(m)
        /\ Serialized(m) \in Seq(Units) /\ Len(Serialized(m)) = Size(m)
        /\ \A i \in 1 .. Size(m) - 1 : Serialized(m)[i] = <<m[1], m[2], i>>
    BY Serials
  <2>2. 1 \in 1 .. Size(m) - 1
    BY <2>1
  <2> QED
    BY <2>1, <2>2
<1>2. b = [i \in 1 .. Size(m) - n |-> Serialized(m)[n + i]]
  BY DEF Piece
<1>3. b \in Pieces
  BY DEF Pieces
<1> HIDE DEF b
<1>4. /\ b \in Seq(Units) /\ b # <<>> /\ Len(b) = Size(m) - n /\ Len(b) > 0
      /\ \A i \in 1 .. Len(b) : b[i] = Serialized(m)[n + i]
  <2>1. \A i \in 1 .. Size(m) - n : Serialized(m)[n + i] \in Units
    <3> TAKE i \in 1 .. Size(m) - n
    <3>1. n + i \in 1 .. Len(Serialized(m))
      BY <1>1
    <3> QED
      BY <1>1, <3>1
  <2> DEFINE k == Size(m) - n
  <2>2. k \in Nat /\ k > 0
    BY <1>1
  <2>3. \A i \in 1 .. k : b[i] = Serialized(m)[n + i] /\ b[i] \in Units
    BY <1>2, <2>1
  <2>4. DOMAIN b = 1 .. k /\ b = [i \in 1 .. k |-> b[i]]
    BY <1>2
  <2> HIDE DEF k
  <2>5. b \in Seq(Units) /\ Len(b) = k
    BY <2>2, <2>3, <2>4
  <2>6. b # <<>>
    BY <2>2, <2>5
  <2> QED
    BY <2>2, <2>3, <2>5, <2>6 DEF k
<1>5. ASSUME NEW i \in 1 .. Len(b)
      PROVE  b[i][3] = 1 <=> n + i = 1
  <2>1. n + i \in 1 .. Size(m)
    BY <1>1, <1>4
  <2> QED
    BY <1>4, <2>1, SerialUnits
<1>6. n = 0 => b = Serialized(m)
  BY <1>1, <1>4
<1>7. b = Serialized(m) => n = 0
  BY <1>1, <1>4
<1>8. Whole(b) <=> n = 0
  BY <1>4, <1>5 DEF Whole
<1>9. n = 0 => Name(b) = m
  BY <1>1, <1>6 DEF Name
<1>10. ASSUME NEW k \in 0 .. Len(b) - 1
       PROVE  SubSeq(b, k + 1, Len(b)) = Piece(m, n + k)
  <2>1. SubSeq(b, k + 1, Len(b)) = [i \in 1 .. Len(b) - k |-> b[i + k]]
    BY <1>4
  <2>2. Piece(m, n + k) = [i \in 1 .. Size(m) - (n + k) |-> Serialized(m)[(n + k) + i]]
    BY DEF Piece
  <2>3. Len(b) - k = Size(m) - (n + k)
    BY <1>1, <1>4
  <2>4. \A i \in 1 .. Len(b) - k : b[i + k] = Serialized(m)[(n + k) + i]
    <3> TAKE i \in 1 .. Len(b) - k
    <3>1. i + k \in 1 .. Len(b) /\ n + (i + k) = (n + k) + i
      BY <1>1, <1>4
    <3> QED
      BY <1>4, <3>1
  <2> QED
    BY <2>1, <2>2, <2>3, <2>4
<1> QED
  BY <1>3, <1>4, <1>5, <1>6, <1>7, <1>8, <1>9, <1>10 DEF b
-----------------------------------------------------------------------------
(* Types *)

LEMMA Processes ==
    /\ \A t \in Senders : ProcOf(t) \in Procs
    /\ \A t \in Threads \union {Writer} : ProcOf(t) = Runtime
    /\ \A t \in Senders, c \in Children : ProcOf(t) = c <=> t = c
    /\ Runtime \notin Children /\ Writer \notin Pushers /\ Free \notin Pushers
    /\ Threads \intersect Children = {} /\ Writer \in Senders
    /\ Pushers = Threads \union Children /\ Senders = Pushers \union {Writer}
    /\ Procs = {Runtime} \union Children
BY BackendChannelAssumption DEF ProcOf, Procs, Senders, Pushers

LEMMA PieceType ==
    ASSUME NEW b \in Pieces
    PROVE  /\ b \in Seq(Units) /\ b # <<>> /\ Len(b) \in Nat /\ Len(b) > 0
           /\ \A i \in 2 .. Len(b) : b[i][3] # 1
           /\ Whole(b) => Name(b) \in AllMessages /\ b = Serialized(Name(b))
           /\ \A n \in 1 .. Len(b) - 1 : SubSeq(b, n + 1, Len(b)) \in Pieces /\ ~Whole(SubSeq(b, n + 1, Len(b)))
<1>1. PICK m \in AllMessages : \E n \in 0 .. Size(m) - 1 : b = Piece(m, n)
  BY DEF Pieces
<1>2. PICK n \in 0 .. Size(m) - 1 : b = Piece(m, n)
  BY <1>1
<1>3. /\ b \in Seq(Units) /\ b # <<>> /\ Len(b) = Size(m) - n
      /\ \A i \in 2 .. Len(b) : b[i][3] # 1
      /\ Whole(b) <=> b = Serialized(m)
      /\ Whole(b) => Name(b) = m
      /\ \A k \in 0 .. Len(b) - 1 : SubSeq(b, k + 1, Len(b)) = Piece(m, n + k)
  BY <1>2, Piecewise
<1>4. Size(m) \in Nat
  BY Serials
<1>5. ASSUME NEW k \in 1 .. Len(b) - 1
      PROVE  SubSeq(b, k + 1, Len(b)) \in Pieces /\ ~Whole(SubSeq(b, k + 1, Len(b)))
  <2>1. n + k \in 0 .. Size(m) - 1 /\ n + k # 0 /\ k \in 0 .. Len(b) - 1
    BY <1>3, <1>4
  <2> QED
    BY <2>1, <1>3, Piecewise
<1>6. Len(b) \in Nat /\ Len(b) > 0
  BY <1>3, <1>4
<1> QED
  BY <1>3, <1>5, <1>6

LEMMA SerialPiece ==
    ASSUME NEW m \in AllMessages
    PROVE  Serialized(m) \in Pieces /\ Whole(Serialized(m)) /\ Name(Serialized(m)) = m
<1>1. 0 \in 0 .. Size(m) - 1
  BY Serials
<1>2. Piece(m, 0) = Serialized(m)
  BY <1>1, Piecewise
<1> QED
  BY <1>1, <1>2, Piecewise

\* What initiate_send makes of the block it has taken, when the socket takes n units.
Sends(t, n) ==
    LET b == hand[t]
        rest == SubSeq(b, n + 1, Len(b))
    IN  /\ b \in Pieces /\ b \in Seq(Units) /\ Len(b) \in Nat /\ Len(b) > 0
        /\ n \in 0 .. Len(b) /\ Len(wire) + n <= Capacity
        /\ wire' = wire \o SubSeq(b, 1, n)
        /\ n > 0 /\ n < Len(b) => rest \in Pieces /\ ~Whole(rest)
        /\ fifo' = [fifo EXCEPT ![ProcOf(t)] = IF n > 0 /\ n < Len(b) THEN <<rest>> \o @ ELSE @]
        /\ short' = (short \/ n < Len(b))
        /\ Whole(b) => Name(b) \in AllMessages /\ b = Serialized(Name(b))
        /\ written' = IF n > 0 /\ Whole(b) THEN Append(written, Name(b)) ELSE written
        /\ n > 0 => ProcOf(t) \notin closed
        /\ hand' = [hand EXCEPT ![t] = <<>>]

LEMMA SendEffect ==
    ASSUME TypeOK, NEW t \in Senders, Send(t)
    PROVE  \E n : Sends(t, n)
<1> DEFINE b == hand[t]
           n == Least(Len(b), Room(t))
           rest == SubSeq(b, n + 1, Len(b))
<1>1. b \in Pieces
  BY DEF TypeOK, Send
<1>2. /\ b \in Seq(Units) /\ b # <<>> /\ Len(b) \in Nat /\ Len(b) > 0
      /\ Whole(b) => Name(b) \in AllMessages /\ b = Serialized(Name(b))
      /\ \A k \in 1 .. Len(b) - 1 : SubSeq(b, k + 1, Len(b)) \in Pieces /\ ~Whole(SubSeq(b, k + 1, Len(b)))
  BY <1>1, PieceType
<1>3. wire \in Seq(Units) /\ Len(wire) \in Nat /\ Len(wire) <= Capacity /\ Capacity \in Nat
  BY BackendChannelAssumption DEF TypeOK
<1>4. Room(t) \in Nat /\ Room(t) <= Capacity - Len(wire) /\ (Room(t) > 0 => ProcOf(t) \notin closed)
  BY <1>3 DEF Room
<1>5. n \in 0 .. Len(b) /\ Len(wire) + n <= Capacity /\ (n > 0 => ProcOf(t) \notin closed)
  BY <1>2, <1>3, <1>4 DEF Least
<1>6. /\ wire' = wire \o SubSeq(b, 1, n)
      /\ fifo' = [fifo EXCEPT ![ProcOf(t)] = IF n > 0 /\ rest # <<>> THEN <<rest>> \o @ ELSE @]
      /\ short' = (short \/ rest # <<>>)
      /\ written' = IF n > 0 THEN written \o Begun(b) ELSE written
      /\ hand' = [hand EXCEPT ![t] = <<>>]
  BY DEF Send
<1> HIDE DEF n, b
<1>7. rest # <<>> <=> n < Len(b)
  <2>1. CASE n < Len(b)
    <3>1. Len(rest) = Len(b) - n
      BY <1>2, <1>5, <2>1
    <3> HIDE DEF rest
    <3>2. rest = <<>> => Len(rest) = 0
      OBVIOUS
    <3> QED
      BY <1>2, <1>5, <2>1, <3>1, <3>2
  <2>2. CASE n = Len(b)
    BY <1>2, <2>2
  <2> QED
    BY <1>5, <2>1, <2>2
<1>8. Begun(b) = IF Whole(b) THEN <<Name(b)>> ELSE <<>>
  BY <1>2 DEF Begun, Whole, Name
<1>9. written \o <<>> = written /\ \A x : written \o <<x>> = Append(written, x)
  BY DEF TypeOK
<1>10. written' = IF n > 0 /\ Whole(b) THEN Append(written, Name(b)) ELSE written
  BY <1>6, <1>8, <1>9
<1>11. n > 0 /\ n < Len(b) => rest \in Pieces /\ ~Whole(rest)
  BY <1>2, <1>5
<1>12. Sends(t, n)
  <2>1. /\ b \in Pieces /\ b \in Seq(Units) /\ Len(b) \in Nat /\ Len(b) > 0
        /\ n \in 0 .. Len(b) /\ Len(wire) + n <= Capacity
        /\ wire' = wire \o SubSeq(b, 1, n)
        /\ Whole(b) => Name(b) \in AllMessages /\ b = Serialized(Name(b))
        /\ n > 0 => ProcOf(t) \notin closed
        /\ hand' = [hand EXCEPT ![t] = <<>>]
    BY <1>1, <1>2, <1>5, <1>6
  <2>2. fifo' = [fifo EXCEPT ![ProcOf(t)] = IF n > 0 /\ n < Len(b) THEN <<rest>> \o @ ELSE @]
        /\ short' = (short \/ n < Len(b))
    BY <1>6, <1>7
  <2> HIDE DEF rest
  <2> QED
    BY <2>1, <2>2, <1>10, <1>11 DEF Sends, b, rest
<1> QED
  BY <1>12

LEMMA PushEffect ==
    ASSUME FitsBlock, TypeOK, NEW t \in Pushers, Push(t)
    PROVE  LET m == <<t, pushed[t] + 1>>
           IN  /\ m \in AllMessages /\ Serialized(m) \in Pieces
               /\ Whole(Serialized(m)) /\ Name(Serialized(m)) = m
               /\ fifo' = [fifo EXCEPT ![ProcOf(t)] = Append(@, Serialized(m))]
<1> DEFINE m == <<t, pushed[t] + 1>>
<1>1. pushed[t] + 1 \in 1 .. Messages
  BY BackendChannelAssumption DEF TypeOK, Push
<1>2. m \in AllMessages /\ m[1] = t
  BY <1>1 DEF AllMessages
<1> HIDE DEF m
<1>3. Serialized(m) \in Pieces /\ Whole(Serialized(m)) /\ Name(Serialized(m)) = m
      /\ Blocks(Serialized(m)) = <<Serialized(m)>>
  BY <1>2, SerialPiece, OneBlock
<1>4. fifo' = [fifo EXCEPT ![ProcOf(t)] = @ \o Blocks(Serialized(m))]
  BY DEF Push, m
<1>5. \A p \in Procs : fifo[p] \o <<Serialized(m)>> = Append(fifo[p], Serialized(m))
  BY DEF TypeOK
<1>6. fifo' = [fifo EXCEPT ![ProcOf(t)] = Append(@, Serialized(m))]
  <2>1. ProcOf(t) \in Procs /\ DOMAIN fifo = Procs
    BY Processes DEF TypeOK
  <2> QED
    BY <1>3, <1>4, <1>5, <2>1
<1> QED
  BY <1>2, <1>3, <1>6 DEF m

\* Actions of the other end do not touch the runtime's side of the channel.
LEMMA Reads ==
    ASSUME TypeOK, HandleRead
    PROVE  /\ wire # <<>> /\ ~raised /\ wire' = Tail(wire) /\ wire \in Seq(Units)
           /\ Head(wire) \in Units /\ wire[1] = Head(wire) /\ Len(wire) \in Nat /\ Len(wire) > 0
           /\ \/ Head(wire) # Term /\ line' = Append(line, Head(wire)) /\ got' = got /\ raised' = raised
              \/ Head(wire) = Term /\ line = <<>> /\ raised' /\ line' = line /\ got' = got
              \/ Head(wire) = Term /\ line # <<>> /\ raised' = raised /\ ~Parses(line) /\ line' = <<>> /\ got' = got
              \/ /\ Head(wire) = Term /\ line # <<>> /\ raised' = raised
                 /\ \E n \in 1 .. Len(line), x \in AllMessages :
                       /\ SubSeq(line, 1, n) = Line(x)
                       /\ got' = Append(got, x) /\ line' = SubSeq(line, n + 1, Len(line))
<1>1. wire # <<>> /\ ~raised /\ wire' = Tail(wire) /\ (Collect \/ FoundTerminator \/ FoundNothing)
  BY DEF HandleRead
<1>2. wire \in Seq(Units) /\ Len(wire) \in Nat /\ DOMAIN line = 1 .. Len(line)
  BY DEF TypeOK
<1>3. Head(wire) \in Units /\ wire[1] = Head(wire) /\ Len(wire) > 0
  BY <1>1, <1>2
<1>4. \A u : Parses(u) => Parsed(u) \in AllMessages /\ u = Line(Parsed(u))
  BY DEF Parses, Parsed
<1>5. CASE Collect
  BY <1>1, <1>2, <1>3, <1>5 DEF Collect
<1>6. CASE FoundTerminator
  <2>1. Head(wire) = Term /\ line # <<>> /\ raised' = raised
    BY <1>6 DEF FoundTerminator
  <2>2. CASE TakeMessage
    <3>1. PICK n \in DOMAIN line :
             /\ Parses(SubSeq(line, 1, n))
             /\ got' = Append(got, Parsed(SubSeq(line, 1, n)))
             /\ line' = SubSeq(line, n + 1, Len(line))
      BY <2>2 DEF TakeMessage
    <3>2. \E x \in AllMessages : SubSeq(line, 1, n) = Line(x) /\ got' = Append(got, x)
      BY <1>4, <3>1
    <3> QED
      BY <1>1, <1>2, <1>3, <2>1, <3>1, <3>2
  <2>3. CASE TakeNothing
    BY <1>1, <1>2, <1>3, <2>1, <2>3 DEF TakeNothing
  <2> QED
    BY <1>6, <2>2, <2>3 DEF FoundTerminator
<1>7. CASE FoundNothing
  BY <1>1, <1>2, <1>3, <1>7 DEF FoundNothing
<1> QED
  BY <1>1, <1>5, <1>6, <1>7

LEMMA TypeInit ==
    Init => TypeOK
<1> SUFFICES ASSUME Init PROVE TypeOK
  OBVIOUS
<1>1. Messages \in Nat /\ Capacity \in Nat
  BY BackendChannelAssumption
<1>2. lock \in [Procs -> Pushers \union {Free}] /\ pushed \in [Pushers -> 0 .. Messages]
  BY <1>1 DEF Init
<1>3. fifo \in [Procs -> Seq(Pieces)] /\ hand \in [Senders -> Pieces \union {<<>>}]
  BY DEF Init
<1>4. \A S : <<>> \in Seq(S)
  OBVIOUS
<1>5. wire = <<>> /\ Len(wire) = 0 /\ line = <<>> /\ got = <<>> /\ written = <<>>
  BY DEF Init
<1>6. 0 <= Capacity
  BY <1>1
<1> QED
  BY <1>2, <1>3, <1>4, <1>5, <1>6 DEF Init, TypeOK

LEMMA TypeStep ==
    ASSUME FitsBlock
    PROVE  TypeOK /\ [Next]_vars => TypeOK'
<1> SUFFICES ASSUME TypeOK, [Next]_vars PROVE TypeOK'
  OBVIOUS
<1> USE Processes
<1>1. ASSUME NEW t \in Pushers, Push(t) PROVE TypeOK'
  <2>1. t \in Senders /\ ProcOf(t) \in Procs
    OBVIOUS
  <2>2. fifo' = [fifo EXCEPT ![ProcOf(t)] = Append(@, Serialized(<<t, pushed[t] + 1>>))]
        /\ Serialized(<<t, pushed[t] + 1>>) \in Pieces
    BY <1>1, PushEffect
  <2>3. fifo' \in [Procs -> Seq(Pieces)]
    BY <2>1, <2>2 DEF TypeOK
  <2>4. pushed' \in [Pushers -> 0 .. Messages]
    BY <1>1, BackendChannelAssumption DEF TypeOK, Push
  <2>5. lock' \in [Procs -> Pushers \union {Free}]
    BY <1>1, <2>1 DEF TypeOK, Push
  <2> QED
    BY <1>1, <2>1, <2>3, <2>4, <2>5 DEF TypeOK, Push
<1>2. CASE HandleWrite
  BY <1>2 DEF TypeOK, HandleWrite
<1>3. ASSUME NEW t \in Senders, Check(t) PROVE TypeOK'
  BY <1>3 DEF TypeOK, Check
<1>4. ASSUME NEW t \in Senders, PopLeft(t) PROVE TypeOK'
  <2>1. ProcOf(t) \in Procs /\ fifo[ProcOf(t)] # <<>> /\ fifo[ProcOf(t)] \in Seq(Pieces)
    BY <1>4 DEF TypeOK, PopLeft
  <2>2. Head(fifo[ProcOf(t)]) \in Pieces /\ Tail(fifo[ProcOf(t)]) \in Seq(Pieces)
    BY <2>1
  <2>3. fifo' \in [Procs -> Seq(Pieces)] /\ hand' \in [Senders -> Pieces \union {<<>>}]
    BY <1>4, <2>1, <2>2 DEF TypeOK, PopLeft
  <2> QED
    BY <1>4, <2>3 DEF TypeOK, PopLeft
<1>5. ASSUME NEW t \in Senders, PopEmpty(t) PROVE TypeOK'
  <2>1. lock' \in [Procs -> Pushers \union {Free}]
    BY <1>5 DEF TypeOK, PopEmpty
  <2>2. closed' \subseteq Procs /\ checked' \subseteq sending' /\ sending' \subseteq Senders
    BY <1>5 DEF TypeOK, PopEmpty
  <2> QED
    BY <1>5, <2>1, <2>2 DEF TypeOK, PopEmpty
<1>6. ASSUME NEW t \in Senders, Send(t) PROVE TypeOK'
  <2>1. PICK n : Sends(t, n)
    BY <1>6, SendEffect
  <2> DEFINE b == hand[t]
             rest == SubSeq(b, n + 1, Len(b))
  <2>2. wire \in Seq(Units) /\ Len(wire) \in Nat /\ Len(wire) <= Capacity /\ Capacity \in Nat
    BY BackendChannelAssumption DEF TypeOK
  <2>3. /\ b \in Seq(Units) /\ Len(b) \in Nat /\ n \in 0 .. Len(b) /\ Len(wire) + n <= Capacity
        /\ wire' = wire \o SubSeq(b, 1, n)
        /\ n > 0 /\ n < Len(b) => rest \in Pieces
        /\ fifo' = [fifo EXCEPT ![ProcOf(t)] = IF n > 0 /\ n < Len(b) THEN <<rest>> \o @ ELSE @]
    BY <2>1 DEF Sends
  <2>4. short' \in BOOLEAN
    BY <2>1 DEF Sends, TypeOK
  <2>5. written' \in Seq(AllMessages)
    BY <2>1 DEF Sends, TypeOK
  <2>6. hand' \in [Senders -> Pieces \union {<<>>}]
    BY <2>1 DEF Sends, TypeOK
  <2> HIDE DEF b
  <2>7. SubSeq(b, 1, n) \in Seq(Units) /\ Len(SubSeq(b, 1, n)) = n
    BY <2>3
  <2>8. wire' \in Seq(Units) /\ Len(wire') <= Capacity
    <3> DEFINE s == SubSeq(b, 1, n)
    <3> HIDE DEF s
    <3>1. wire' = wire \o s /\ s \in Seq(Units) /\ Len(s) = n
      BY <2>3, <2>7 DEF s
    <3> QED
      BY <3>1, <2>2, <2>3, ConcatProperties
  <2> HIDE DEF rest
  <2>9. fifo' \in [Procs -> Seq(Pieces)]
    BY <2>3 DEF TypeOK
  <2> QED
    BY <1>6, <2>4, <2>5, <2>6, <2>8, <2>9 DEF TypeOK, Send
<1>7. ASSUME NEW t \in Senders, Return(t) PROVE TypeOK'
  <2>1. lock' \in [Procs -> Pushers \union {Free}]
    BY <1>7 DEF TypeOK, Return
  <2>2. checked' \subseteq sending' /\ sending' \subseteq Senders
    BY <1>7 DEF TypeOK, Return
  <2> QED
    BY <1>7, <2>1, <2>2 DEF TypeOK, Return
<1>8. ASSUME NEW c \in Children, Fork(c) PROVE TypeOK'
  <2>1. Runtime \in Procs /\ c \in Procs
    OBVIOUS
  <2>2. lock' \in [Procs -> Pushers \union {Free}] /\ fifo' \in [Procs -> Seq(Pieces)]
    BY <1>8, <2>1 DEF TypeOK, Fork
  <2>3. closed' \subseteq Procs
    BY <1>8, <2>1 DEF TypeOK, Fork
  <2> QED
    BY <1>8, <2>2, <2>3 DEF TypeOK, Fork
<1>9. CASE HandleRead
  <2>1. wire' \in Seq(Units) /\ Len(wire') <= Capacity
    <3>1. wire \in Seq(Units) /\ wire # <<>> /\ wire' = Tail(wire) /\ Len(wire) <= Capacity
      BY <1>9, Reads DEF TypeOK
    <3>2. Tail(wire) \in Seq(Units) /\ Len(Tail(wire)) = Len(wire) - 1 /\ Len(wire) \in Nat
      BY <3>1
    <3> QED
      BY <3>1, <3>2, BackendChannelAssumption
  <2>2. line' \in Seq(Units) /\ got' \in Seq(AllMessages) /\ raised' \in BOOLEAN
    <3>1. line \in Seq(Units) /\ got \in Seq(AllMessages) /\ raised \in BOOLEAN
      BY DEF TypeOK
    <3>2. CASE Collect
      BY <1>9, <3>1, <3>2, Reads DEF Collect
    <3>3. CASE FoundTerminator
      <4>1. raised' = raised /\ Head(wire) = Term /\ line # <<>>
        BY <3>3 DEF FoundTerminator
      <4>2. \A n \in 1 .. Len(line) : SubSeq(line, n + 1, Len(line)) \in Seq(Units)
        BY <3>1
      <4>3. \A x \in AllMessages : Append(got, x) \in Seq(AllMessages)
        BY <3>1
      <4>4. <<>> \in Seq(Units)
        OBVIOUS
      <4>5. \/ line' = <<>> /\ got' = got
            \/ \E n \in 1 .. Len(line), x \in AllMessages :
                  got' = Append(got, x) /\ line' = SubSeq(line, n + 1, Len(line))
        BY <1>9, <4>1, Reads
      <4>6. CASE line' = <<>> /\ got' = got
        BY <3>1, <4>1, <4>4, <4>6
      <4>7. CASE \E n \in 1 .. Len(line), x \in AllMessages :
                    got' = Append(got, x) /\ line' = SubSeq(line, n + 1, Len(line))
        <5>1. PICK n \in 1 .. Len(line), x \in AllMessages :
                 got' = Append(got, x) /\ line' = SubSeq(line, n + 1, Len(line))
          BY <4>7
        <5>2. line' \in Seq(Units)
          BY <4>2, <5>1
        <5>3. got' \in Seq(AllMessages)
          BY <4>3, <5>1
        <5> QED
          BY <3>1, <4>1, <5>2, <5>3
      <4> QED
        BY <4>5, <4>6, <4>7
    <3>4. CASE FoundNothing
      BY <3>1, <3>4 DEF FoundNothing
    <3> QED
      BY <1>9, <3>2, <3>3, <3>4 DEF HandleRead
  <2> QED
    BY <1>9, <2>1, <2>2 DEF TypeOK, HandleRead
<1>10. CASE UNCHANGED vars
  BY <1>10 DEF TypeOK, vars
<1> QED
  BY <1>1, <1>2, <1>3, <1>4, <1>5, <1>6, <1>7, <1>8, <1>9, <1>10 DEF Next
-----------------------------------------------------------------------------
(* Locks *)

LEMMA HoldingStep ==
    ASSUME FitsBlock
    PROVE  TypeOK /\ Holding /\ [Next]_vars => Holding'
<1> SUFFICES ASSUME TypeOK, Holding, [Next]_vars PROVE Holding'
  OBVIOUS
<1> USE Processes
<1>a. /\ \A t \in Pushers : t \in sending <=> lock[ProcOf(t)] = t
      /\ \A t \in Senders : hand[t] # <<>> => t \in sending \ checked
      /\ lock[Runtime] \in Threads \union {Free}
      /\ \A c \in Children : /\ lock[c] \in Threads \union {c, Free}
                             /\ c \notin forked => lock[c] = Free
                             /\ c \notin forked \/ lock[c] \in Threads => pushed[c] = 0
                             /\ c \in closed => c \notin checked /\ hand[c] = <<>>
  BY DEF Holding
<1>b. lock \in [Procs -> Pushers \union {Free}] /\ checked \subseteq sending /\ sending \subseteq Senders
      /\ hand \in [Senders -> Pieces \union {<<>>}] /\ pushed \in [Pushers -> 0 .. Messages]
  BY DEF TypeOK
<1>1. ASSUME NEW t \in Pushers, Push(t) PROVE Holding'
  <2>1. /\ t \in Threads \union forked /\ t \notin sending /\ lock[ProcOf(t)] = Free
        /\ lock' = [lock EXCEPT ![ProcOf(t)] = t] /\ pushed' = [pushed EXCEPT ![t] = @ + 1]
        /\ sending' = sending \union {t} /\ UNCHANGED <<forked, checked, hand, closed>>
    BY <1>1 DEF Push
  <2>2. \A u \in Pushers : u \in sending' <=> lock'[ProcOf(u)] = u
    BY <1>a, <1>b, <2>1
  <2>3. \A u \in Senders : hand'[u] # <<>> => u \in sending' \ checked'
    BY <1>a, <2>1
  <2>4. lock'[Runtime] \in Threads \union {Free}
    BY <1>a, <1>b, <2>1
  <2>5. ASSUME NEW c \in Children
        PROVE  /\ lock'[c] \in Threads \union {c, Free}
               /\ c \notin forked' => lock'[c] = Free
               /\ c \notin forked' \/ lock'[c] \in Threads => pushed'[c] = 0
               /\ c \in closed' => c \notin checked' /\ hand'[c] = <<>>
    <3>1. CASE t = c
      BY <1>a, <1>b, <2>1, <3>1
    <3>2. CASE t # c
      <4>1. ProcOf(t) # c
        BY <3>2
      <4>2. lock'[c] = lock[c] /\ pushed'[c] = pushed[c]
        BY <1>b, <2>1, <3>2, <4>1
      <4> QED
        BY <1>a, <2>1, <4>2
    <3> QED
      BY <3>1, <3>2
  <2> QED
    BY <2>2, <2>3, <2>4, <2>5 DEF Holding
<1>2. CASE HandleWrite
  <2>1. sending' = sending \union {Writer} /\ UNCHANGED <<forked, lock, pushed, checked, hand, closed>>
    BY <1>2 DEF HandleWrite
  <2>2. \A t \in Pushers : t \in sending' <=> t \in sending
    BY <2>1
  <2> QED
    BY <1>a, <2>1, <2>2 DEF Holding
<1>3. ASSUME NEW t \in Senders, Check(t) PROVE Holding'
  <2>1. /\ hand[t] = <<>> /\ ProcOf(t) \notin closed /\ checked' = checked \union {t}
        /\ UNCHANGED <<forked, lock, pushed, sending, hand, closed>>
    BY <1>3 DEF Check
  <2>2. \A c \in Children : c \in closed => c \notin checked'
    BY <1>a, <2>1
  <2> QED
    BY <1>a, <2>1, <2>2 DEF Holding
<1>4. ASSUME NEW t \in Senders, PopLeft(t) PROVE Holding'
  <2>1. /\ t \in checked /\ checked' = checked \ {t}
        /\ UNCHANGED <<forked, lock, pushed, sending, closed>>
        /\ hand' = [hand EXCEPT ![t] = Head(fifo[ProcOf(t)])]
    BY <1>4 DEF PopLeft
  <2>2. \A u \in Senders : hand'[u] # <<>> => u \in sending' \ checked'
    BY <1>a, <1>b, <2>1
  <2>3. \A c \in Children : c \in closed => c \notin checked' /\ hand'[c] = <<>>
    BY <1>a, <1>b, <2>1
  <2> QED
    BY <1>a, <2>1, <2>2, <2>3 DEF Holding
<1>5. ASSUME NEW t \in Senders, PopEmpty(t) \/ Return(t) PROVE Holding'
  <2>1. /\ hand[t] = <<>> /\ sending' = sending \ {t} /\ checked' = checked \ {t}
        /\ lock' = [lock EXCEPT ![ProcOf(t)] = IF @ = t THEN Free ELSE @]
        /\ closed' \subseteq closed \union {Runtime}
        /\ UNCHANGED <<forked, pushed, hand>>
    BY <1>a, <1>5 DEF PopEmpty, Return
  <2>2. \A p \in Procs : lock'[p] = lock[p] \/ (p = ProcOf(t) /\ lock[p] = t /\ lock'[p] = Free)
    BY <1>b, <2>1
  <2>3. \A u \in Pushers : u \in sending' <=> lock'[ProcOf(u)] = u
    <3> TAKE u \in Pushers
    <3>1. CASE u = t
      <4>1. lock'[ProcOf(t)] # t
        BY <1>b, <2>1, <3>1
      <4> QED
        BY <2>1, <3>1, <4>1
    <3>2. CASE u # t
      <4>1. u \in sending' <=> u \in sending
        BY <2>1, <3>2
      <4>2. lock'[ProcOf(u)] = u <=> lock[ProcOf(u)] = u
        BY <2>2, <3>2
      <4> QED
        BY <1>a, <4>1, <4>2
    <3> QED
      BY <3>1, <3>2
  <2>4. \A u \in Senders : hand'[u] # <<>> => u \in sending' \ checked'
    BY <1>a, <2>1
  <2>5. lock'[Runtime] \in Threads \union {Free}
    BY <1>a, <2>2
  <2>6. ASSUME NEW c \in Children
        PROVE  /\ lock'[c] \in Threads \union {c, Free}
               /\ c \notin forked' => lock'[c] = Free
               /\ c \notin forked' \/ lock'[c] \in Threads => pushed'[c] = 0
               /\ c \in closed' => c \notin checked' /\ hand'[c] = <<>>
    <3>1. c \in Procs
      OBVIOUS
    <3>2. lock'[c] = lock[c] \/ lock'[c] = Free
      BY <2>2, <3>1
    <3>3. c \in closed' => c \in closed
      BY <2>1
    <3>4. Free \notin Threads
      OBVIOUS
    <3> QED
      BY <1>a, <2>1, <3>2, <3>3, <3>4
  <2> QED
    BY <2>3, <2>4, <2>5, <2>6 DEF Holding
<1>6. ASSUME NEW t \in Senders, Send(t) PROVE Holding'
  <2>1. /\ hand' = [hand EXCEPT ![t] = <<>>]
        /\ UNCHANGED <<forked, lock, pushed, sending, checked, closed>>
    BY <1>6 DEF Send
  <2>2. \A u \in Senders : hand'[u] = hand[u] \/ hand'[u] = <<>>
    BY <1>b, <2>1
  <2>3. \A c \in Children : hand[c] = <<>> => hand'[c] = <<>>
    BY <2>2
  <2> QED
    BY <1>a, <2>1, <2>2, <2>3 DEF Holding
<1>7. ASSUME NEW c \in Children, Fork(c) PROVE Holding'
  <2>1. /\ c \notin forked /\ forked' = forked \union {c}
        /\ lock' = [lock EXCEPT ![c] = lock[Runtime]] /\ closed' \subseteq closed \union {c}
        /\ UNCHANGED <<pushed, sending, checked, hand>>
    BY <1>7 DEF Fork
  <2>2. c \notin sending /\ hand[c] = <<>> /\ c \notin checked /\ pushed[c] = 0
    BY <1>a, <1>b, <2>1
  <2>3. \A u \in Pushers : u \in sending' <=> lock'[ProcOf(u)] = u
    <3> TAKE u \in Pushers
    <3>1. CASE u = c
      BY <1>a, <1>b, <2>1, <2>2, <3>1
    <3>2. CASE u # c
      <4>1. ProcOf(u) # c
        BY <3>2
      <4> QED
        BY <1>a, <1>b, <2>1, <4>1
    <3> QED
      BY <3>1, <3>2
  <2>4. lock'[Runtime] = lock[Runtime] /\ lock'[c] = lock[Runtime]
    BY <1>b, <2>1
  <2>5. ASSUME NEW d \in Children
        PROVE  /\ lock'[d] \in Threads \union {d, Free}
               /\ d \notin forked' => lock'[d] = Free
               /\ d \notin forked' \/ lock'[d] \in Threads => pushed'[d] = 0
               /\ d \in closed' => d \notin checked' /\ hand'[d] = <<>>
    <3>1. CASE d = c
      BY <1>a, <2>1, <2>2, <2>4, <3>1
    <3>2. CASE d # c
      <4>1. lock'[d] = lock[d]
        BY <1>b, <2>1, <3>2
      <4> QED
        BY <1>a, <2>1, <3>2, <4>1
    <3> QED
      BY <3>1, <3>2
  <2> QED
    BY <1>a, <2>1, <2>3, <2>4, <2>5 DEF Holding
<1>8. CASE HandleRead \/ UNCHANGED vars
  <2>1. UNCHANGED <<forked, lock, pushed, sending, checked, hand, closed>>
    BY <1>8 DEF HandleRead, vars
  <2> QED
    BY <1>a, <2>1 DEF Holding
<1> QED
  BY <1>1, <1>2, <1>3, <1>4, <1>5, <1>6, <1>7, <1>8 DEF Next

\* Who has a block in its hands is the one thread of a live process, or the runtime's.
LEMMA HandsLive ==
    ASSUME TypeOK, Holding
    PROVE  /\ Live(Runtime)
           /\ \A t \in Senders : hand[t] # <<>> \/ t \in checked => Live(ProcOf(t))
           /\ \A t \in Pushers : lock[ProcOf(t)] = Free => lock[ProcOf(t)] \notin Threads
<1> USE Processes
<1>1. Live(Runtime)
  BY DEF Live
<1>2. ASSUME NEW t \in Senders, hand[t] # <<>> \/ t \in checked
      PROVE  Live(ProcOf(t))
  <2>1. CASE t \in Children
    <3>1. ProcOf(t) = t /\ t \in sending /\ t \notin closed
      BY <1>2, <2>1 DEF TypeOK, Holding
    <3>2. lock[t] = t
      BY <2>1, <3>1 DEF Holding
    <3> QED
      BY <2>1, <3>1, <3>2 DEF Live
  <2>2. CASE t \notin Children
    BY <1>1, <2>2 DEF Live
  <2> QED
    BY <2>1, <2>2
<1> QED
  BY <1>1, <1>2
-----------------------------------------------------------------------------
(* Queues *)

LEMMA QueueOps ==
    ASSUME NEW s \in Seq(Pieces), NEW b \in Pieces
    PROVE  /\ DOMAIN s = 1 .. Len(s) /\ Len(s) \in Nat
           /\ s # <<>> => /\ Head(s) = s[1] /\ 1 \in DOMAIN s /\ s[1] \in Pieces
                          /\ \A i \in DOMAIN Tail(s) : i + 1 \in DOMAIN s /\ Tail(s)[i] = s[i + 1]
                          /\ \A i \in DOMAIN s : i # 1 => i - 1 \in DOMAIN Tail(s)
           /\ \A i \in DOMAIN (<<b>> \o s) : \/ i = 1 /\ (<<b>> \o s)[i] = b
                                             \/ i - 1 \in DOMAIN s /\ (<<b>> \o s)[i] = s[i - 1]
           /\ \A i \in DOMAIN s : i + 1 \in DOMAIN (<<b>> \o s) /\ (<<b>> \o s)[i + 1] = s[i]
           /\ \A i \in DOMAIN Append(s, b) : \/ i \in DOMAIN s /\ Append(s, b)[i] = s[i]
                                             \/ i = Len(s) + 1 /\ Append(s, b)[i] = b
           /\ \A i \in DOMAIN s : i \in DOMAIN Append(s, b) /\ Append(s, b)[i] = s[i]
           /\ Len(s) + 1 \in DOMAIN Append(s, b) /\ Append(s, b)[Len(s) + 1] = b
<1>1. DOMAIN s = 1 .. Len(s) /\ Len(s) \in Nat
  OBVIOUS
<1>2. ASSUME s # <<>>
      PROVE  /\ Head(s) = s[1] /\ 1 \in DOMAIN s /\ s[1] \in Pieces
             /\ \A i \in DOMAIN Tail(s) : i + 1 \in DOMAIN s /\ Tail(s)[i] = s[i + 1]
             /\ \A i \in DOMAIN s : i # 1 => i - 1 \in DOMAIN Tail(s)
  BY <1>2
<1>3. /\ Len(<<b>> \o s) = Len(s) + 1 /\ DOMAIN (<<b>> \o s) = 1 .. Len(s) + 1
      /\ (<<b>> \o s)[1] = b /\ \A i \in 1 .. Len(s) : (<<b>> \o s)[i + 1] = s[i]
  OBVIOUS
<1>4. \A i \in 2 .. Len(s) + 1 : i - 1 \in 1 .. Len(s) /\ i = (i - 1) + 1
  BY <1>1
<1>5. \A i \in 2 .. Len(s) + 1 : (<<b>> \o s)[i] = s[i - 1]
  BY <1>3, <1>4
<1>6. /\ DOMAIN Append(s, b) = 1 .. Len(s) + 1 /\ Append(s, b)[Len(s) + 1] = b
      /\ \A i \in 1 .. Len(s) : Append(s, b)[i] = s[i]
  OBVIOUS
<1> HIDE DEF Pieces
<1>7. \A i \in DOMAIN (<<b>> \o s) : \/ i = 1 /\ (<<b>> \o s)[i] = b
                                     \/ i - 1 \in DOMAIN s /\ (<<b>> \o s)[i] = s[i - 1]
  BY <1>1, <1>3, <1>4, <1>5
<1>8. \A i \in DOMAIN s : i + 1 \in DOMAIN (<<b>> \o s) /\ (<<b>> \o s)[i + 1] = s[i]
  BY <1>1, <1>3
<1>9. \A i \in DOMAIN Append(s, b) : \/ i \in DOMAIN s /\ Append(s, b)[i] = s[i]
                                     \/ i = Len(s) + 1 /\ Append(s, b)[i] = b
  BY <1>1, <1>6
<1> QED
  BY <1>1, <1>2, <1>6, <1>7, <1>8, <1>9

\* The queues and hands after each action.
LEMMA PushQueues ==
    ASSUME FitsBlock, TypeOK, NEW t \in Pushers, Push(t)
    PROVE  /\ \A p \in Procs \ {ProcOf(t)} : fifo'[p] = fifo[p]
           /\ fifo'[ProcOf(t)] = Append(fifo[ProcOf(t)], Serialized(<<t, pushed[t] + 1>>))
<1> DEFINE b == Serialized(<<t, pushed[t] + 1>>)
<1>1. fifo \in [Procs -> Seq(Pieces)] /\ ProcOf(t) \in Procs
  BY Processes DEF TypeOK
<1>2. fifo' = [fifo EXCEPT ![ProcOf(t)] = Append(@, b)]
  BY PushEffect
<1> HIDE DEF b
<1>3. (\A p \in Procs \ {ProcOf(t)} : fifo'[p] = fifo[p]) /\ fifo'[ProcOf(t)] = Append(fifo[ProcOf(t)], b)
  BY <1>1, <1>2
<1> QED
  BY <1>3 DEF b

LEMMA PopQueues ==
    ASSUME TypeOK, Holding, NEW t \in Senders, PopLeft(t)
    PROVE  /\ \A p \in Procs \ {ProcOf(t)} : fifo'[p] = fifo[p]
           /\ fifo'[ProcOf(t)] = Tail(fifo[ProcOf(t)]) /\ fifo[ProcOf(t)] # <<>>
           /\ hand'[t] = fifo[ProcOf(t)][1] /\ hand[t] = <<>>
           /\ \A u \in Senders \ {t} : hand'[u] = hand[u]
<1>0. fifo \in [Procs -> Seq(Pieces)] /\ hand \in [Senders -> Pieces \union {<<>>}]
  BY DEF TypeOK
<1>1. ProcOf(t) \in Procs /\ fifo[ProcOf(t)] # <<>> /\ fifo[ProcOf(t)] \in Seq(Pieces) /\ t \in checked
  BY <1>0, Processes DEF PopLeft
<1>2. Head(fifo[ProcOf(t)]) = fifo[ProcOf(t)][1]
  BY <1>1
<1>3. hand[t] = <<>>
  BY <1>1 DEF Holding
<1> QED
  BY <1>0, <1>1, <1>2, <1>3 DEF PopLeft

LEMMA SendQueues ==
    ASSUME TypeOK, NEW t \in Senders, NEW n, Sends(t, n)
    PROVE  /\ \A p \in Procs \ {ProcOf(t)} : fifo'[p] = fifo[p]
           /\ \/ n > 0 /\ n < Len(hand[t])
                 /\ fifo'[ProcOf(t)] = <<SubSeq(hand[t], n + 1, Len(hand[t]))>> \o fifo[ProcOf(t)]
              \/ (n = 0 \/ n = Len(hand[t])) /\ fifo'[ProcOf(t)] = fifo[ProcOf(t)]
           /\ hand'[t] = <<>> /\ hand[t] # <<>>
           /\ \A u \in Senders \ {t} : hand'[u] = hand[u]
<1> DEFINE b == hand[t]
           rest == SubSeq(b, n + 1, Len(b))
<1>0. fifo \in [Procs -> Seq(Pieces)] /\ hand \in [Senders -> Pieces \union {<<>>}]
  BY DEF TypeOK
<1>1. /\ b \in Seq(Units) /\ Len(b) \in Nat /\ Len(b) > 0 /\ n \in 0 .. Len(b)
      /\ fifo' = [fifo EXCEPT ![ProcOf(t)] = IF n > 0 /\ n < Len(b) THEN <<rest>> \o @ ELSE @]
      /\ hand' = [hand EXCEPT ![t] = <<>>]
  BY DEF Sends
<1>2. ProcOf(t) \in Procs
  BY Processes
<1>3. b # <<>>
  BY <1>1
<1> HIDE DEF b, rest
<1>4. /\ \A p \in Procs \ {ProcOf(t)} : fifo'[p] = fifo[p]
      /\ \/ n > 0 /\ n < Len(b) /\ fifo'[ProcOf(t)] = <<rest>> \o fifo[ProcOf(t)]
         \/ (n = 0 \/ n = Len(b)) /\ fifo'[ProcOf(t)] = fifo[ProcOf(t)]
  BY <1>0, <1>1, <1>2
<1>5. hand'[t] = <<>> /\ \A u \in Senders \ {t} : hand'[u] = hand[u]
  BY <1>0, <1>1
<1> QED
  BY <1>3, <1>4, <1>5 DEF b, rest

LEMMA ForkQueues ==
    ASSUME TypeOK, NEW c \in Children, Fork(c)
    PROVE  (\A p \in Procs \ {c} : fifo'[p] = fifo[p]) /\ fifo'[c] = fifo[Runtime]
  BY Processes DEF TypeOK, Fork

\* The actions that leave queues and hands alone.
Aside == HandleWrite \/ HandleRead \/ \E t \in Senders : Check(t) \/ PopEmpty(t) \/ Return(t)

LEMMA AsideChanges ==
    Aside => UNCHANGED <<forked, fifo, hand, pushed, short, written>>
BY DEF Aside, HandleWrite, HandleRead, Check, PopEmpty, Return

LEMMA DrainedStep ==
    ASSUME FitsBlock
    PROVE  TypeOK /\ Holding /\ Drained /\ [Next]_vars => Drained'
<1> SUFFICES ASSUME TypeOK, Holding, Drained, [Next]_vars,
                    NEW p \in Procs, lock'[p] = Free, p \notin closed', NEW i \in DOMAIN fifo'[p]
             PROVE  ~Whole(fifo'[p][i])
  BY DEF Drained
<1> USE Processes
<1>a. \A q \in Procs : lock[q] = Free /\ q \notin closed => \A j \in DOMAIN fifo[q] : ~Whole(fifo[q][j])
  BY DEF Drained
<1>b. /\ lock \in [Procs -> Pushers \union {Free}] /\ fifo \in [Procs -> Seq(Pieces)]
      /\ hand \in [Senders -> Pieces \union {<<>>}]
  BY DEF TypeOK
<1>1. ASSUME NEW t \in Pushers, Push(t) PROVE ~Whole(fifo'[p][i])
  <2>1. lock'[ProcOf(t)] = t /\ \A q \in Procs : q # ProcOf(t) => lock'[q] = lock[q]
    BY <1>1, <1>b DEF Push
  <2>2. p # ProcOf(t) /\ lock[p] = Free /\ p \notin closed
    BY <1>1, <2>1 DEF Push
  <2>3. fifo'[p] = fifo[p]
    BY <1>1, <2>2, PushQueues
  <2> QED
    BY <1>a, <2>2, <2>3
<1>2. CASE HandleWrite \/ HandleRead \/ UNCHANGED vars
  BY <1>a, <1>2 DEF HandleWrite, HandleRead, vars
<1>3. ASSUME NEW t \in Senders, Check(t) PROVE ~Whole(fifo'[p][i])
  BY <1>a, <1>3 DEF Check
<1>4. ASSUME NEW t \in Senders, PopLeft(t) PROVE ~Whole(fifo'[p][i])
  <2>1. lock[p] = Free /\ p \notin closed
    BY <1>4 DEF PopLeft
  <2>2. CASE p # ProcOf(t)
    BY <1>a, <1>4, <2>1, <2>2, PopQueues
  <2>3. CASE p = ProcOf(t)
    <3>1. fifo'[p] = Tail(fifo[p]) /\ fifo[p] # <<>> /\ fifo[p] \in Seq(Pieces)
      BY <1>4, <1>b, <2>3, PopQueues
    <3>2. fifo[p][1] \in Pieces
      BY <3>1
    <3>3. i + 1 \in DOMAIN fifo[p] /\ fifo'[p][i] = fifo[p][i + 1]
      BY <3>1, <3>2, QueueOps
    <3> QED
      BY <1>a, <2>1, <3>3
  <2> QED
    BY <2>2, <2>3
<1>5. ASSUME NEW t \in Senders, PopEmpty(t) \/ Return(t) PROVE ~Whole(fifo'[p][i])
  <2>1. /\ fifo' = fifo /\ closed \subseteq closed'
        /\ lock' = [lock EXCEPT ![ProcOf(t)] = IF @ = t THEN Free ELSE @]
        /\ fifo[ProcOf(t)] = <<>> \/ ProcOf(t) \in closed
    BY <1>5 DEF PopEmpty, Return
  <2>2. CASE p = ProcOf(t)
    <3>1. fifo'[p] = <<>>
      BY <2>1, <2>2
    <3> QED
      BY <3>1
  <2>3. CASE p # ProcOf(t)
    <3>1. lock[p] = Free
      BY <1>b, <2>1, <2>3
    <3> QED
      BY <1>a, <2>1, <3>1
  <2> QED
    BY <2>2, <2>3
<1>6. ASSUME NEW t \in Senders, Send(t) PROVE ~Whole(fifo'[p][i])
  <2>1. lock[p] = Free /\ p \notin closed
    BY <1>6 DEF Send
  <2>2. PICK n : Sends(t, n)
    BY <1>6, SendEffect
  <2>3. CASE fifo'[p] = fifo[p]
    BY <1>a, <2>1, <2>3
  <2>4. CASE fifo'[p] # fifo[p]
    <3> DEFINE rest == SubSeq(hand[t], n + 1, Len(hand[t]))
    <3>1. p = ProcOf(t) /\ n > 0 /\ n < Len(hand[t]) /\ fifo'[p] = <<rest>> \o fifo[p]
      BY <2>2, <2>4, SendQueues
    <3>2. rest \in Pieces /\ ~Whole(rest)
      BY <2>2, <3>1 DEF Sends
    <3> HIDE DEF rest
    <3>3. (i = 1 /\ fifo'[p][i] = rest) \/ (i - 1 \in DOMAIN fifo[p] /\ fifo'[p][i] = fifo[p][i - 1])
      BY <1>b, <3>1, <3>2, QueueOps
    <3> QED
      BY <1>a, <2>1, <3>2, <3>3
  <2> QED
    BY <2>3, <2>4
<1>7. ASSUME NEW c \in Children, Fork(c) PROVE ~Whole(fifo'[p][i])
  <2>1. /\ lock' = [lock EXCEPT ![c] = lock[Runtime]]
        /\ closed' = IF Runtime \in closed THEN closed \union {c} ELSE closed
    BY <1>7 DEF Fork
  <2>2. CASE p = c
    <3>1. fifo'[p] = fifo[Runtime] /\ lock[Runtime] = Free /\ Runtime \notin closed
      BY <1>7, <1>b, <2>1, <2>2, ForkQueues
    <3> QED
      BY <1>a, <3>1
  <2>3. CASE p # c
    <3>1. fifo'[p] = fifo[p] /\ lock[p] = Free /\ p \notin closed
      BY <1>7, <1>b, <2>1, <2>3, ForkQueues
    <3> QED
      BY <1>a, <3>1
  <2> QED
    BY <2>2, <2>3
<1> QED
  BY <1>1, <1>2, <1>3, <1>4, <1>5, <1>6, <1>7 DEF Next

\* A send that is not short takes the whole block.
LEMMA WholeSend ==
    ASSUME TypeOK, NEW t \in Senders, NEW n, Sends(t, n), ~short'
    PROVE  /\ n = Len(hand[t]) /\ n \in Nat /\ n > 0 /\ ~short
           /\ \A p \in Procs : fifo'[p] = fifo[p]
           /\ hand'[t] = <<>> /\ hand[t] # <<>>
           /\ \A u \in Senders \ {t} : hand'[u] = hand[u]
<1> DEFINE l == Len(hand[t])
<1>1. short' = (short \/ n < l) /\ n \in 0 .. l /\ l \in Nat /\ l > 0
  BY DEF Sends
<1> HIDE DEF l
<1>2. n = l /\ n > 0 /\ n \in Nat /\ ~short
  <2> DEFINE d == n < l
  <2>1. short' = (short \/ d)
    BY <1>1
  <2> HIDE DEF d
  <2>2. ~short /\ ~d
    BY <2>1
  <2> QED
    BY <1>1, <2>2 DEF d
<1>3. /\ \A p \in Procs \ {ProcOf(t)} : fifo'[p] = fifo[p]
      /\ \/ n > 0 /\ n < l
         \/ fifo'[ProcOf(t)] = fifo[ProcOf(t)]
      /\ hand'[t] = <<>> /\ hand[t] # <<>>
      /\ \A u \in Senders \ {t} : hand'[u] = hand[u]
  BY SendQueues DEF l
<1>4. fifo'[ProcOf(t)] = fifo[ProcOf(t)]
  BY <1>2, <1>3
<1> QED
  BY <1>2, <1>3, <1>4 DEF l

LEMMA IntactStep ==
    ASSUME FitsBlock
    PROVE  TypeOK /\ Holding /\ Intact /\ [Next]_vars => Intact'
<1> SUFFICES ASSUME TypeOK, Holding, Intact, [Next]_vars, ~short'
             PROVE  /\ \A p \in Procs : \A i \in DOMAIN fifo'[p] : Whole(fifo'[p][i])
                    /\ \A t \in Senders : hand'[t] # <<>> => Whole(hand'[t])
  BY DEF Intact
<1> USE Processes
<1>b. fifo \in [Procs -> Seq(Pieces)] /\ hand \in [Senders -> Pieces \union {<<>>}] /\ Runtime \in Procs
  BY DEF TypeOK
<1>c. short' = short => /\ \A p \in Procs : \A i \in DOMAIN fifo[p] : Whole(fifo[p][i])
                        /\ \A t \in Senders : hand[t] # <<>> => Whole(hand[t])
  BY DEF Intact
<1>1. ASSUME NEW t \in Pushers, Push(t)
      PROVE  /\ \A p \in Procs : \A i \in DOMAIN fifo'[p] : Whole(fifo'[p][i])
             /\ \A u \in Senders : hand'[u] # <<>> => Whole(hand'[u])
  <2> DEFINE b == Serialized(<<t, pushed[t] + 1>>)
  <2>1. short' = short /\ hand' = hand
    BY <1>1 DEF Push
  <2>2. b \in Pieces /\ Whole(b)
    BY <1>1, PushEffect
  <2>3. /\ \A p \in Procs \ {ProcOf(t)} : fifo'[p] = fifo[p]
        /\ fifo'[ProcOf(t)] = Append(fifo[ProcOf(t)], b)
    BY <1>1, PushQueues
  <2> HIDE DEF b
  <2>4. \A i \in DOMAIN fifo'[ProcOf(t)] : Whole(fifo'[ProcOf(t)][i])
    <3> TAKE i \in DOMAIN fifo'[ProcOf(t)]
    <3>1. \/ i \in DOMAIN fifo[ProcOf(t)] /\ fifo'[ProcOf(t)][i] = fifo[ProcOf(t)][i]
          \/ fifo'[ProcOf(t)][i] = b
      BY <1>b, <2>2, <2>3, QueueOps
    <3> QED
      BY <1>c, <2>1, <2>2, <3>1
  <2> QED
    BY <1>c, <2>1, <2>3, <2>4
<1>2. ASSUME NEW t \in Senders, PopLeft(t)
      PROVE  /\ \A p \in Procs : \A i \in DOMAIN fifo'[p] : Whole(fifo'[p][i])
             /\ \A u \in Senders : hand'[u] # <<>> => Whole(hand'[u])
  <2>1. short' = short
    BY <1>2 DEF PopLeft
  <2>2. /\ \A p \in Procs \ {ProcOf(t)} : fifo'[p] = fifo[p]
        /\ fifo'[ProcOf(t)] = Tail(fifo[ProcOf(t)]) /\ fifo[ProcOf(t)] # <<>>
        /\ hand'[t] = fifo[ProcOf(t)][1]
        /\ \A u \in Senders \ {t} : hand'[u] = hand[u]
    BY <1>2, PopQueues
  <2>3. fifo[ProcOf(t)] \in Seq(Pieces) /\ fifo[ProcOf(t)][1] \in Pieces /\ 1 \in DOMAIN fifo[ProcOf(t)]
    BY <1>b, <2>2
  <2>4. \A i \in DOMAIN fifo'[ProcOf(t)] : i + 1 \in DOMAIN fifo[ProcOf(t)] /\ fifo'[ProcOf(t)][i] = fifo[ProcOf(t)][i + 1]
    BY <2>2, <2>3, QueueOps
  <2>5. \A p \in Procs : \A i \in DOMAIN fifo[p] : Whole(fifo[p][i])
    BY <1>c, <2>1
  <2>6. ASSUME NEW p \in Procs, NEW i \in DOMAIN fifo'[p] PROVE Whole(fifo'[p][i])
    <3>1. CASE p = ProcOf(t)
      BY <2>4, <2>5, <3>1
    <3>2. CASE p # ProcOf(t)
      BY <2>2, <2>5, <3>2
    <3> QED
      BY <3>1, <3>2
  <2>7. ASSUME NEW u \in Senders, hand'[u] # <<>> PROVE Whole(hand'[u])
    <3>1. CASE u = t
      BY <2>2, <2>3, <2>5, <3>1
    <3>2. CASE u # t
      BY <1>c, <2>1, <2>2, <2>7, <3>2
    <3> QED
      BY <3>1, <3>2
  <2> QED
    BY <2>6, <2>7
<1>3. ASSUME NEW t \in Senders, Send(t)
      PROVE  /\ \A p \in Procs : \A i \in DOMAIN fifo'[p] : Whole(fifo'[p][i])
             /\ \A u \in Senders : hand'[u] # <<>> => Whole(hand'[u])
  <2>1. PICK n : Sends(t, n)
    BY <1>3, SendEffect
  <2>2. /\ ~short /\ hand'[t] = <<>>
        /\ \A p \in Procs : fifo'[p] = fifo[p]
        /\ \A u \in Senders \ {t} : hand'[u] = hand[u]
    BY <2>1, WholeSend
  <2>3. /\ \A p \in Procs : \A i \in DOMAIN fifo[p] : Whole(fifo[p][i])
        /\ \A u \in Senders : hand[u] # <<>> => Whole(hand[u])
    BY <2>2 DEF Intact
  <2> QED
    BY <2>2, <2>3
<1>4. ASSUME NEW c \in Children, Fork(c)
      PROVE  /\ \A p \in Procs : \A i \in DOMAIN fifo'[p] : Whole(fifo'[p][i])
             /\ \A u \in Senders : hand'[u] # <<>> => Whole(hand'[u])
  <2>1. short' = short /\ hand' = hand
    BY <1>4 DEF Fork
  <2>2. (\A p \in Procs \ {c} : fifo'[p] = fifo[p]) /\ fifo'[c] = fifo[Runtime]
    BY <1>4, ForkQueues
  <2> QED
    BY <1>b, <1>c, <2>1, <2>2
<1>5. CASE Aside \/ UNCHANGED vars
  BY <1>c, <1>5, AsideChanges DEF vars
<1> QED
  BY <1>1, <1>2, <1>3, <1>4, <1>5 DEF Next, Aside

\* Where a message that is pushed can be.
Placed(m) ==
    \/ \E k \in DOMAIN written : written[k] = m
    \/ \E t \in Senders : hand[t] = Serialized(m)
    \/ \E i \in DOMAIN fifo[ProcOf(m[1])] : fifo[ProcOf(m[1])][i] = Serialized(m)

LEMMA KeptStep ==
    ASSUME FitsBlock
    PROVE  TypeOK /\ Holding /\ Intact /\ Kept /\ [Next]_vars => Kept'
<1> SUFFICES ASSUME TypeOK, Holding, Intact, Kept, [Next]_vars, ~short',
                    NEW m \in AllMessages, m[2] <= pushed'[m[1]]
             PROVE  Placed(m)'
  BY DEF Kept, Placed
<1> USE Processes
<1> DEFINE p == ProcOf(m[1])
           s == Serialized(m)
<1>a. s \in Pieces /\ Whole(s) /\ Name(s) = m /\ s # <<>> /\ m[1] \in Pushers /\ m[2] \in Nat /\ m[2] >= 1
      /\ m = <<m[1], m[2]>> /\ p \in Procs
  BY SerialPiece, Serials, PieceType
<1>b. fifo \in [Procs -> Seq(Pieces)] /\ written \in Seq(AllMessages) /\ pushed \in [Pushers -> 0 .. Messages]
  BY DEF TypeOK
<1>c. ~short /\ m[2] <= pushed[m[1]] => Placed(m)
  BY DEF Kept, Placed
<1>d. Placed(m)' <=> \/ \E k \in DOMAIN written' : written'[k] = m
                     \/ \E t \in Senders : hand'[t] = s
                     \/ \E i \in DOMAIN fifo'[p] : fifo'[p][i] = s
  BY DEF Placed
<1>e. Placed(m) <=> \/ \E k \in DOMAIN written : written[k] = m
                    \/ \E t \in Senders : hand[t] = s
                    \/ \E i \in DOMAIN fifo[p] : fifo[p][i] = s
  BY DEF Placed
<1> HIDE DEF s, p
<1>1. ASSUME NEW t \in Pushers, Push(t) PROVE Placed(m)'
  <2> DEFINE b == Serialized(<<t, pushed[t] + 1>>)
  <2>1. /\ UNCHANGED <<short, hand, written>> /\ pushed' = [pushed EXCEPT ![t] = @ + 1]
    BY <1>1 DEF Push
  <2>2. b \in Pieces
    BY <1>1, PushEffect
  <2>3. /\ \A q \in Procs \ {ProcOf(t)} : fifo'[q] = fifo[q]
        /\ fifo'[ProcOf(t)] = Append(fifo[ProcOf(t)], b)
    BY <1>1, PushQueues
  <2>4. CASE m[2] <= pushed[m[1]]
    <3>1. Placed(m)
      BY <1>c, <2>1, <2>4
    <3>2. CASE \E i \in DOMAIN fifo[p] : fifo[p][i] = s
      <4>1. PICK i \in DOMAIN fifo[p] : fifo[p][i] = s
        BY <3>2
      <4>2. fifo[ProcOf(t)] \in Seq(Pieces)
        BY <1>b
      <4> HIDE DEF b
      <4>3. CASE p = ProcOf(t)
        <5>1. i \in DOMAIN Append(fifo[p], b) /\ Append(fifo[p], b)[i] = s
          BY <2>2, <4>1, <4>2, <4>3, QueueOps
        <5> QED
          BY <1>d, <2>3, <4>3, <5>1
      <4>4. CASE p # ProcOf(t)
        BY <1>a, <1>d, <2>3, <4>1, <4>4
      <4> QED
        BY <4>3, <4>4
    <3> QED
      BY <1>d, <1>e, <2>1, <3>1, <3>2
  <2>5. CASE ~(m[2] <= pushed[m[1]])
    <3>1. m[1] = t /\ m[2] = pushed[t] + 1
      BY <1>a, <1>b, <2>1, <2>5
    <3>2. b = s /\ p = ProcOf(t)
      BY <1>a, <3>1 DEF s, p
    <3>3. fifo[p] \in Seq(Pieces)
      BY <1>a, <1>b
    <3> HIDE DEF b
    <3>4. Len(fifo[p]) + 1 \in DOMAIN fifo'[p] /\ fifo'[p][Len(fifo[p]) + 1] = s
      BY <2>2, <2>3, <3>2, <3>3, QueueOps
    <3> QED
      BY <1>d, <3>4
  <2> QED
    BY <2>4, <2>5
<1>2. ASSUME NEW t \in Senders, PopLeft(t) PROVE Placed(m)'
  <2>1. UNCHANGED <<short, pushed, written>>
    BY <1>2 DEF PopLeft
  <2>2. /\ \A q \in Procs \ {ProcOf(t)} : fifo'[q] = fifo[q]
        /\ fifo'[ProcOf(t)] = Tail(fifo[ProcOf(t)]) /\ fifo[ProcOf(t)] # <<>>
        /\ hand'[t] = fifo[ProcOf(t)][1] /\ hand[t] = <<>>
        /\ \A u \in Senders \ {t} : hand'[u] = hand[u]
    BY <1>2, PopQueues
  <2>3. Placed(m)
    BY <1>c, <2>1
  <2>4. CASE \E i \in DOMAIN fifo[p] : fifo[p][i] = s
    <3>1. PICK i \in DOMAIN fifo[p] : fifo[p][i] = s
      BY <2>4
    <3>2. CASE p # ProcOf(t)
      BY <1>a, <1>d, <2>2, <3>1, <3>2
    <3>3. CASE p = ProcOf(t) /\ i = 1
      BY <1>d, <2>2, <3>1, <3>3
    <3>4. CASE p = ProcOf(t) /\ i # 1
      <4>1. fifo[p] \in Seq(Pieces) /\ fifo[p] # <<>> /\ fifo'[p] = Tail(fifo[p])
        BY <1>a, <1>b, <2>2, <3>4
      <4>2. i \in 1 .. Len(fifo[p])
        BY <4>1, <3>1
      <4>3. i - 1 \in DOMAIN fifo'[p] /\ fifo'[p][i - 1] = fifo[p][i]
        BY <4>1, <4>2, <3>4
      <4> QED
        BY <1>d, <3>1, <4>3
    <3> QED
      BY <3>2, <3>3, <3>4
  <2>5. ASSUME NEW u \in Senders, hand[u] = s PROVE Placed(m)'
    <3>1. u # t
      BY <1>a, <2>2, <2>5
    <3> QED
      BY <1>d, <2>2, <2>5, <3>1
  <2> QED
    BY <1>d, <1>e, <2>1, <2>3, <2>4, <2>5
<1>3. ASSUME NEW t \in Senders, Send(t) PROVE Placed(m)'
  <2>1. PICK n : Sends(t, n)
    BY <1>3, SendEffect
  <2>2. n > 0 /\ ~short /\ pushed' = pushed
    BY <1>3, <2>1, WholeSend DEF Send
  <2>3. /\ \A q \in Procs : fifo'[q] = fifo[q]
        /\ hand[t] # <<>>
        /\ \A u \in Senders \ {t} : hand'[u] = hand[u]
    BY <2>1, WholeSend
  <2>4. Whole(hand[t])
    BY <2>2, <2>3 DEF Intact
  <2>5. written' = Append(written, Name(hand[t])) /\ Name(hand[t]) \in AllMessages
    BY <2>1, <2>2, <2>4 DEF Sends
  <2>6. /\ \A k \in DOMAIN written : k \in DOMAIN written' /\ written'[k] = written[k]
        /\ Len(written) + 1 \in DOMAIN written' /\ written'[Len(written) + 1] = Name(hand[t])
    BY <1>b, <2>5
  <2>7. Placed(m)
    BY <1>c, <2>2
  <2>8. ASSUME NEW u \in Senders, hand[u] = s PROVE Placed(m)'
    <3>1. CASE u = t
      BY <1>a, <1>d, <2>6, <2>8, <3>1
    <3>2. CASE u # t
      BY <1>d, <2>3, <2>8, <3>2
    <3> QED
      BY <3>1, <3>2
  <2>9. fifo'[p] = fifo[p]
    BY <1>a, <2>3
  <2> QED
    BY <1>d, <1>e, <2>6, <2>7, <2>8, <2>9
<1>4. ASSUME NEW c \in Children, Fork(c) PROVE Placed(m)'
  <2>1. UNCHANGED <<short, pushed, hand, written>> /\ c \notin forked
    BY <1>4 DEF Fork
  <2>2. (\A q \in Procs \ {c} : fifo'[q] = fifo[q]) /\ fifo'[c] = fifo[Runtime]
    BY <1>4, ForkQueues
  <2>3. p # c
    <3>1. pushed[c] = 0
      BY <2>1 DEF Holding
    <3>2. m[1] # c
      BY <1>a, <2>1, <3>1
    <3> QED
      BY <1>a, <3>2 DEF p
  <2>4. Placed(m) /\ fifo'[p] = fifo[p]
    BY <1>a, <1>c, <2>1, <2>2, <2>3
  <2> QED
    BY <1>d, <1>e, <2>1, <2>4
<1>5. CASE Aside \/ UNCHANGED vars
  <2>1. UNCHANGED <<fifo, hand, pushed, short, written>>
    BY <1>5, AsideChanges DEF vars
  <2> QED
    BY <1>c, <1>d, <1>e, <2>1
<1> QED
  BY <1>1, <1>2, <1>3, <1>4, <1>5 DEF Next, Aside
-----------------------------------------------------------------------------
(* Each message is begun once *)

LEMMA LiveBefore ==
    ASSUME TypeOK, Holding, Aside, NEW p \in Procs, Live(p)'
    PROVE  Live(p)
<1> USE Processes
<1>1. closed \subseteq closed'
  BY DEF Aside, HandleWrite, HandleRead, Check, PopEmpty, Return
<1>2. CASE lock' = lock
  BY <1>1, <1>2 DEF Live
<1>3. CASE lock' # lock
  <2>1. PICK t \in Senders : lock' = [lock EXCEPT ![ProcOf(t)] = IF @ = t THEN Free ELSE @]
    BY <1>3 DEF Aside, HandleWrite, HandleRead, Check, PopEmpty, Return
  <2>2. lock \in [Procs -> Pushers \union {Free}] /\ ProcOf(t) \in Procs
    BY DEF TypeOK
  <2>3. lock'[p] = lock[p] \/ (p = ProcOf(t) /\ lock[p] = t)
    BY <2>1, <2>2
  <2>4. p \in Children /\ lock[p] \in Threads => lock'[p] = lock[p]
    BY <2>3
  <2> QED
    BY <1>1, <2>4 DEF Live
<1> QED
  BY <1>2, <1>3

\* The names of blocks in queues and hands, and on the wire.
LEMMA Names ==
    ASSUME TypeOK
    PROVE  /\ \A p \in Procs : \A i, m : Queued(p, i, m) => i \in Nat /\ i >= 1 /\ m \in AllMessages
           /\ \A t \in Senders : \A m : Held(t, m) => m \in AllMessages
           /\ \A k, m : Wrote(k, m) => k \in Nat /\ k <= Len(written) /\ m \in AllMessages
           /\ \A m \in AllMessages : m[1] \in Pushers /\ m[2] \in Nat /\ m[2] >= 1 /\ m = <<m[1], m[2]>>
           /\ Len(written) \in Nat
<1>1. ASSUME NEW p \in Procs, NEW i, NEW m, Queued(p, i, m)
      PROVE  i \in Nat /\ i >= 1 /\ m \in AllMessages
  <2>1. fifo[p] \in Seq(Pieces) /\ i \in DOMAIN fifo[p] /\ Whole(fifo[p][i]) /\ m = Name(fifo[p][i])
    BY <1>1 DEF TypeOK, Queued
  <2>2. fifo[p][i] \in Pieces /\ i \in Nat /\ i >= 1
    BY <2>1
  <2> QED
    BY <2>1, <2>2, PieceType
<1>2. ASSUME NEW t \in Senders, NEW m, Held(t, m)
      PROVE  m \in AllMessages
  <2>1. hand[t] \in Pieces /\ Whole(hand[t]) /\ m = Name(hand[t])
    BY <1>2 DEF TypeOK, Held, Whole
  <2> QED
    BY <2>1, PieceType
<1>3. ASSUME NEW k, NEW m, Wrote(k, m)
      PROVE  k \in Nat /\ k <= Len(written) /\ m \in AllMessages
  BY <1>3 DEF TypeOK, Wrote
<1>4. ASSUME NEW m \in AllMessages
      PROVE  m[1] \in Pushers /\ m[2] \in Nat /\ m[2] >= 1 /\ m = <<m[1], m[2]>>
  <2>1. m[1] \in Pushers /\ m[2] \in 1 .. Messages /\ m = <<m[1], m[2]>>
    BY Serials
  <2> QED
    BY <2>1, BackendChannelAssumption
<1>5. Len(written) \in Nat
  BY DEF TypeOK
<1> QED
  BY <1>1, <1>2, <1>3, <1>4, <1>5

\* Where messages begin after each action.
LEMMA PushMoves ==
    ASSUME FitsBlock, TypeOK, Holding, NEW t \in Pushers, Push(t)
    PROVE  \E n \in Nat, x \in AllMessages :
              /\ x[1] = t /\ x[2] = pushed[t] + 1
              /\ \A p \in Procs : Live(p)' => Live(p)
              /\ \A p \in Procs, i \in Nat, m \in AllMessages :
                    Queued(p, i, m)' => Queued(p, i, m) \/ (p = ProcOf(t) /\ i = n /\ m = x)
              /\ \A i \in Nat, m \in AllMessages : Queued(ProcOf(t), i, m) => i < n
              /\ \A u \in Senders, m \in AllMessages : Held(u, m)' <=> Held(u, m)
              /\ \A k \in Nat, m \in AllMessages : Wrote(k, m)' <=> Wrote(k, m)
              /\ \A u \in Pushers : pushed'[u] = IF u = t THEN x[2] ELSE pushed[u]
<1> USE Processes
<1> DEFINE P == ProcOf(t)
           x == <<t, pushed[t] + 1>>
           b == Serialized(x)
           n == Len(fifo[P]) + 1
<1>1. /\ lock[P] = Free /\ lock' = [lock EXCEPT ![P] = t]
      /\ pushed' = [pushed EXCEPT ![t] = @ + 1] /\ UNCHANGED <<closed, hand, written>>
  BY DEF Push
<1>2. x \in AllMessages /\ b \in Pieces /\ Name(b) = x /\ x[1] = t /\ x[2] = pushed[t] + 1
  BY PushEffect
<1>3. /\ \A p \in Procs \ {P} : fifo'[p] = fifo[p]
      /\ fifo'[P] = Append(fifo[P], b)
  BY PushQueues
<1>4. fifo[P] \in Seq(Pieces) /\ P \in Procs /\ lock \in [Procs -> Pushers \union {Free}]
      /\ pushed \in [Pushers -> 0 .. Messages]
  BY DEF TypeOK
<1> HIDE DEF x, b, P
<1>5. \A i \in DOMAIN fifo'[P] : \/ i \in DOMAIN fifo[P] /\ fifo'[P][i] = fifo[P][i]
                                 \/ i = n /\ fifo'[P][i] = b
  BY <1>2, <1>3, <1>4, QueueOps
<1>6. DOMAIN fifo[P] = 1 .. Len(fifo[P]) /\ Len(fifo[P]) \in Nat /\ n \in Nat
  BY <1>4
<1>7. ASSUME NEW p \in Procs, Live(p)' PROVE Live(p)
  <2>1. CASE p = P
    <3>1. lock[p] \notin Threads
      BY <1>1, <2>1
    <3> QED
      BY <1>1, <1>7, <3>1 DEF Live
  <2>2. CASE p # P
    BY <1>1, <1>4, <1>7, <2>2 DEF Live
  <2> QED
    BY <2>1, <2>2
<1>8. ASSUME NEW p \in Procs, NEW i \in Nat, NEW m \in AllMessages, Queued(p, i, m)'
      PROVE  Queued(p, i, m) \/ (p = P /\ i = n /\ m = x)
  <2>1. i \in DOMAIN fifo'[p] /\ Whole(fifo'[p][i]) /\ m = Name(fifo'[p][i])
    BY <1>8 DEF Queued
  <2>2. CASE p = P
    <3>1. CASE i \in DOMAIN fifo[P] /\ fifo'[P][i] = fifo[P][i]
      BY <2>1, <2>2, <3>1 DEF Queued
    <3>2. CASE i = n /\ fifo'[P][i] = b
      BY <1>2, <2>1, <2>2, <3>2
    <3> QED
      BY <1>5, <2>1, <2>2, <3>1, <3>2
  <2>3. CASE p # P
    BY <1>3, <2>1, <2>3 DEF Queued
  <2> QED
    BY <2>2, <2>3
<1>9. \A i \in Nat, m \in AllMessages : Queued(P, i, m) => i < n
  BY <1>6 DEF Queued
<1>10. \A u \in Pushers : pushed'[u] = IF u = t THEN x[2] ELSE pushed[u]
  BY <1>1, <1>2, <1>4
<1>11. /\ \A u \in Senders, m \in AllMessages : Held(u, m)' <=> Held(u, m)
       /\ \A k \in Nat, m \in AllMessages : Wrote(k, m)' <=> Wrote(k, m)
  BY <1>1 DEF Held, Wrote
<1> HIDE DEF n
<1> QED
  BY <1>2, <1>6, <1>7, <1>8, <1>9, <1>10, <1>11 DEF P

LEMMA PopMoves ==
    ASSUME TypeOK, Holding, NEW t \in Senders, PopLeft(t)
    PROVE  /\ \A p \in Procs : Live(p)' <=> Live(p)
           /\ Live(ProcOf(t))
           /\ \A p \in Procs, i \in Nat, m \in AllMessages :
                 Queued(p, i, m)' => IF p = ProcOf(t) THEN i >= 1 /\ Queued(p, i + 1, m) ELSE Queued(p, i, m)
           /\ \A u \in Senders, m \in AllMessages :
                 Held(u, m)' => IF u = t THEN Queued(ProcOf(t), 1, m) ELSE Held(u, m)
           /\ \A m \in AllMessages : ~Held(t, m)
           /\ \A k \in Nat, m \in AllMessages : Wrote(k, m)' <=> Wrote(k, m)
           /\ pushed' = pushed
<1> DEFINE P == ProcOf(t)
<1>1. UNCHANGED <<lock, closed, pushed, written>> /\ t \in checked
  BY DEF PopLeft
<1>2. /\ \A p \in Procs \ {P} : fifo'[p] = fifo[p]
      /\ fifo'[P] = Tail(fifo[P]) /\ fifo[P] # <<>>
      /\ hand'[t] = fifo[P][1] /\ hand[t] = <<>>
      /\ \A u \in Senders \ {t} : hand'[u] = hand[u]
  BY PopQueues
<1>3. fifo[P] \in Seq(Pieces) /\ P \in Procs
  BY Processes DEF TypeOK
<1>4. Live(P)
  BY <1>1, HandsLive
<1> HIDE DEF P
<1>5. fifo[P][1] \in Pieces /\ 1 \in DOMAIN fifo[P]
  BY <1>2, <1>3
<1>6. \A i \in DOMAIN fifo'[P] : i + 1 \in DOMAIN fifo[P] /\ fifo'[P][i] = fifo[P][i + 1] /\ i >= 1
  <2>1. \A i \in DOMAIN fifo'[P] : i + 1 \in DOMAIN fifo[P] /\ fifo'[P][i] = fifo[P][i + 1]
    BY <1>2, <1>3, <1>5, QueueOps
  <2>2. Tail(fifo[P]) \in Seq(Pieces)
    BY <1>2, <1>3
  <2>3. \A i \in DOMAIN fifo'[P] : i >= 1
    BY <1>2, <2>2
  <2> QED
    BY <2>1, <2>3
<1>7. \A i \in Nat, m \in AllMessages : Queued(P, i, m)' => i >= 1 /\ Queued(P, i + 1, m)
  BY <1>6 DEF Queued
<1>8. \A p \in Procs, i \in Nat, m \in AllMessages : p # P /\ Queued(p, i, m)' => Queued(p, i, m)
  BY <1>2 DEF Queued
<1>9. \A m \in AllMessages : ~Held(t, m) /\ (Held(t, m)' => Queued(P, 1, m))
  BY <1>2, <1>5 DEF Held, Queued, Whole
<1>10. \A u \in Senders, m \in AllMessages : u # t /\ Held(u, m)' => Held(u, m)
  BY <1>2 DEF Held
<1>11. /\ \A p \in Procs : Live(p)' <=> Live(p)
       /\ \A k \in Nat, m \in AllMessages : Wrote(k, m)' <=> Wrote(k, m)
  BY <1>1 DEF Live, Wrote
<1> QED
  BY <1>1, <1>4, <1>7, <1>8, <1>9, <1>10, <1>11 DEF P

LEMMA SendMoves ==
    ASSUME TypeOK, Holding, NEW t \in Senders, Send(t)
    PROVE  \E d \in {0, 1} :
              /\ \A p \in Procs : Live(p)' <=> Live(p)
              /\ Live(ProcOf(t))
              /\ \A p \in Procs, i \in Nat, m \in AllMessages :
                    Queued(p, i, m)' => IF p = ProcOf(t) THEN i - d \in Nat /\ Queued(p, i - d, m)
                                                         ELSE Queued(p, i, m)
              /\ \A u \in Senders, m \in AllMessages : Held(u, m)' => u # t /\ Held(u, m)
              /\ \A k \in Nat, m \in AllMessages :
                    Wrote(k, m)' => Wrote(k, m) \/ (k = Len(written) + 1 /\ Held(t, m))
              /\ \A k \in Nat, m \in AllMessages : Wrote(k, m) => Wrote(k, m)'
              /\ pushed' = pushed
<1> DEFINE P == ProcOf(t)
           rest(n) == SubSeq(hand[t], n + 1, Len(hand[t]))
<1>1. UNCHANGED <<lock, closed, pushed>> /\ hand[t] # <<>>
  BY DEF Send
<1>2. PICK n : Sends(t, n)
  BY SendEffect
<1>3. /\ \A p \in Procs \ {P} : fifo'[p] = fifo[p]
      /\ \/ n > 0 /\ n < Len(hand[t]) /\ fifo'[P] = <<rest(n)>> \o fifo[P]
         \/ fifo'[P] = fifo[P]
      /\ hand'[t] = <<>>
      /\ \A u \in Senders \ {t} : hand'[u] = hand[u]
  BY <1>2, SendQueues
<1>4. /\ n > 0 /\ n < Len(hand[t]) => rest(n) \in Pieces /\ ~Whole(rest(n))
      /\ \/ written' = written
         \/ Whole(hand[t]) /\ written' = Append(written, Name(hand[t])) /\ Name(hand[t]) \in AllMessages
  BY <1>2 DEF Sends
<1>5. fifo[P] \in Seq(Pieces) /\ P \in Procs /\ DOMAIN fifo[P] \subseteq Nat /\ written \in Seq(AllMessages)
  BY Processes DEF TypeOK
<1>0. Live(P)
  BY <1>1, HandsLive
<1> HIDE DEF P, rest
<1>6. \E d \in {0, 1} : \A i \in Nat, m \in AllMessages :
         Queued(P, i, m)' => i - d \in Nat /\ Queued(P, i - d, m)
  <2>1. CASE fifo'[P] = fifo[P]
    <3>1. \A i \in Nat, m \in AllMessages : i - 0 = i /\ (Queued(P, i, m)' => Queued(P, i, m))
      BY <2>1 DEF Queued
    <3>2. \A i \in Nat, m \in AllMessages : Queued(P, i, m)' => i - 0 \in Nat /\ Queued(P, i - 0, m)
      BY <3>1
    <3> QED
      BY <3>2
  <2>2. CASE n > 0 /\ n < Len(hand[t]) /\ fifo'[P] = <<rest(n)>> \o fifo[P]
    <3>1. rest(n) \in Pieces /\ ~Whole(rest(n))
      BY <1>4, <2>2
    <3>2. \A i \in DOMAIN fifo'[P] : \/ fifo'[P][i] = rest(n)
                                     \/ i - 1 \in DOMAIN fifo[P] /\ fifo'[P][i] = fifo[P][i - 1]
      BY <1>5, <2>2, <3>1, QueueOps
    <3>3. \A i \in Nat, m \in AllMessages : Queued(P, i, m)' => i - 1 \in Nat /\ Queued(P, i - 1, m)
      BY <1>5, <3>1, <3>2 DEF Queued
    <3> QED
      BY <3>3
  <2> QED
    BY <1>3, <2>1, <2>2
<1>7. /\ \A p \in Procs : Live(p)' <=> Live(p)
      /\ \A p \in Procs, i \in Nat, m \in AllMessages : p # P /\ Queued(p, i, m)' => Queued(p, i, m)
  BY <1>1, <1>3 DEF Live, Queued
<1>8. \A u \in Senders, m \in AllMessages : Held(u, m)' => u # t /\ Held(u, m)
  BY <1>3 DEF Whole, Held
<1>9. /\ \A k \in Nat, m \in AllMessages : Wrote(k, m)' => Wrote(k, m) \/ (k = Len(written) + 1 /\ Held(t, m))
      /\ \A k \in Nat, m \in AllMessages : Wrote(k, m) => Wrote(k, m)'
  <2>1. CASE written' = written
    BY <2>1 DEF Wrote
  <2>2. CASE Whole(hand[t]) /\ written' = Append(written, Name(hand[t])) /\ Name(hand[t]) \in AllMessages
    <3> DEFINE w == Name(hand[t])
    <3> HIDE DEF w
    <3>1. /\ DOMAIN written = 1 .. Len(written) /\ DOMAIN Append(written, w) = 1 .. Len(written) + 1
          /\ Append(written, w)[Len(written) + 1] = w /\ Len(written) \in Nat
          /\ \A k \in 1 .. Len(written) : Append(written, w)[k] = written[k]
      BY <1>5, <2>2, AppendProperties DEF w
    <3>2. written' = Append(written, w) /\ \A m \in AllMessages : Held(t, m) <=> m = w
      BY <2>2 DEF Held, w
    <3> QED
      BY <3>1, <3>2 DEF Wrote
  <2> QED
    BY <1>4, <2>1, <2>2
<1> QED
  BY <1>0, <1>1, <1>6, <1>7, <1>8, <1>9 DEF P

LEMMA ForkMoves ==
    ASSUME TypeOK, Holding, Drained, NEW c \in Children, Fork(c)
    PROVE  /\ \A p \in Procs : Live(p)' => p = c \/ Live(p)
           /\ Live(c)' => \A i \in Nat, m \in AllMessages : ~Queued(c, i, m)'
           /\ \A p \in Procs, i \in Nat, m \in AllMessages : p # c /\ Queued(p, i, m)' => Queued(p, i, m)
           /\ \A m \in AllMessages : ~Held(c, m)
           /\ \A u \in Senders, m \in AllMessages : Held(u, m)' <=> Held(u, m)
           /\ \A k \in Nat, m \in AllMessages : Wrote(k, m)' <=> Wrote(k, m)
           /\ pushed' = pushed
<1> USE Processes
<1>1. /\ c \notin forked /\ lock' = [lock EXCEPT ![c] = lock[Runtime]]
      /\ closed' = IF Runtime \in closed THEN closed \union {c} ELSE closed
      /\ UNCHANGED <<hand, pushed, written>>
  BY DEF Fork
<1>2. lock \in [Procs -> Pushers \union {Free}] /\ c \in Procs /\ Runtime \in Procs
  BY DEF TypeOK
<1>3. (\A p \in Procs \ {c} : fifo'[p] = fifo[p]) /\ fifo'[c] = fifo[Runtime]
  BY ForkQueues
<1>4. hand[c] = <<>>
  <2>1. lock[c] = Free /\ ProcOf(c) = c /\ c \in Pushers
    BY <1>1 DEF Holding
  <2>2. c \notin sending
    BY <2>1 DEF Holding
  <2> QED
    BY <2>2 DEF Holding
<1>5. ASSUME Live(c)' PROVE \A i \in Nat, m \in AllMessages : ~Queued(c, i, m)'
  <2>1. lock'[c] = lock[Runtime] /\ lock[Runtime] \in Threads \union {Free}
    BY <1>1, <1>2 DEF Holding
  <2>2. lock'[c] \notin Threads /\ c \notin closed'
    BY <1>5 DEF Live
  <2>3. lock[Runtime] = Free /\ Runtime \notin closed
    BY <1>1, <2>1, <2>2
  <2> QED
    BY <1>2, <1>3, <2>3 DEF Drained, Queued
<1>6. \A p \in Procs : Live(p)' => p = c \/ Live(p)
  BY <1>1, <1>2 DEF Live
<1>7. \A p \in Procs, i \in Nat, m \in AllMessages : p # c /\ Queued(p, i, m)' => Queued(p, i, m)
  BY <1>3 DEF Queued
<1>8. /\ \A m \in AllMessages : ~Held(c, m)
      /\ \A u \in Senders, m \in AllMessages : Held(u, m)' <=> Held(u, m)
      /\ \A k \in Nat, m \in AllMessages : Wrote(k, m)' <=> Wrote(k, m)
  BY <1>1, <1>4 DEF Held, Wrote, Whole
<1> QED
  BY <1>1, <1>5, <1>6, <1>7, <1>8

LEMMA AsideMoves ==
    ASSUME TypeOK, Holding, Aside \/ UNCHANGED vars
    PROVE  /\ \A p \in Procs : Live(p)' => Live(p)
           /\ \A p \in Procs, i \in Nat, m \in AllMessages : Queued(p, i, m)' => Queued(p, i, m)
           /\ \A u \in Senders, m \in AllMessages : Held(u, m)' <=> Held(u, m)
           /\ \A k \in Nat, m \in AllMessages : Wrote(k, m)' <=> Wrote(k, m)
           /\ pushed' = pushed
<1>1. UNCHANGED <<fifo, hand, pushed, written>>
  BY AsideChanges DEF vars
<1>2. \A p \in Procs : Live(p)' => Live(p)
  <2>1. CASE Aside
    BY <2>1, LiveBefore
  <2>2. CASE UNCHANGED vars
    BY <2>2 DEF Live, vars
  <2> QED
    BY <2>1, <2>2
<1> QED
  BY <1>1, <1>2 DEF Queued, Held, Wrote
-----------------------------------------------------------------------------
(* Each message is begun once *)

LEMMA OncePush ==
    ASSUME FitsBlock, TypeOK, Holding, Once, NEW t \in Pushers, Push(t)
    PROVE  Once'
<1> USE Processes
<1>1. PICK n \in Nat, x \in AllMessages :
              /\ x[1] = t /\ x[2] = pushed[t] + 1
              /\ \A p \in Procs : Live(p)' => Live(p)
              /\ \A p \in Procs, i \in Nat, m \in AllMessages :
                    Queued(p, i, m)' => Queued(p, i, m) \/ (p = ProcOf(t) /\ i = n /\ m = x)
              /\ \A i \in Nat, m \in AllMessages : Queued(ProcOf(t), i, m) => i < n
              /\ \A u \in Senders, m \in AllMessages : Held(u, m)' <=> Held(u, m)
              /\ \A k \in Nat, m \in AllMessages : Wrote(k, m)' <=> Wrote(k, m)
              /\ \A u \in Pushers : pushed'[u] = IF u = t THEN x[2] ELSE pushed[u]
  BY PushMoves
<1>2. /\ \A m \in AllMessages : m[1] \in Pushers /\ m[2] \in Nat /\ m[2] >= 1 /\ m = <<m[1], m[2]>>
      /\ \A u \in Pushers : pushed[u] \in Nat
  BY Names, BackendChannelAssumption DEF TypeOK
<1>3. \A m \in AllMessages : m[2] <= pushed[m[1]] => m[2] <= pushed'[m[1]] /\ m # x
  <2> SUFFICES ASSUME NEW m \in AllMessages, m[2] <= pushed[m[1]]
               PROVE  m[2] <= pushed'[m[1]] /\ m # x
    OBVIOUS
  <2>1. CASE m[1] = t
    BY <1>1, <1>2, <2>1
  <2>2. CASE m[1] # t
    BY <1>1, <1>2, <2>2
  <2> QED
    BY <2>1, <2>2
<1>4. \A m \in AllMessages, p \in Procs : Due(m, p) => Due(m, p)' /\ m # x
  BY <1>1, <1>3 DEF Due
<1>5. \A k \in Nat : ~Wrote(k, x)
  BY <1>3 DEF Once, OnceWritten
<1>6. Due(x, ProcOf(t))'
  BY <1>1, <1>2, <1>5 DEF Due
<1>7. OnceQueued'
  <2> SUFFICES ASSUME NEW p \in Procs, NEW i \in Nat, NEW m \in AllMessages, Live(p)', Queued(p, i, m)'
               PROVE  Due(m, p)' /\ \A j \in Nat : Queued(p, j, m)' => i = j
    BY DEF OnceQueued
  <2>1. CASE Queued(p, i, m)
    <3>1. Due(m, p) /\ \A j \in Nat : Queued(p, j, m) => i = j
      BY <1>1, <2>1 DEF Once, OnceQueued
    <3> QED
      BY <1>1, <1>4, <3>1
  <2>2. CASE p = ProcOf(t) /\ i = n /\ m = x
    <3>1. \A j \in Nat : ~Queued(p, j, m)
      BY <1>1, <1>4, <2>2 DEF Once, OnceQueued
    <3> QED
      BY <1>1, <1>6, <2>2, <3>1
  <2> QED
    BY <1>1, <2>1, <2>2
<1>8. OnceHeld'
  <2> SUFFICES ASSUME NEW u \in Senders, NEW m \in AllMessages, Held(u, m)'
               PROVE  /\ Due(m, ProcOf(u))'
                      /\ \A i \in Nat : ~Queued(ProcOf(u), i, m)'
                      /\ \A v \in Senders : Held(v, m)' => u = v
    BY DEF OnceHeld
  <2>1. /\ Due(m, ProcOf(u)) /\ (\A i \in Nat : ~Queued(ProcOf(u), i, m))
        /\ \A v \in Senders : Held(v, m) => u = v
    BY <1>1 DEF Once, OnceHeld
  <2> QED
    BY <1>1, <1>4, <2>1
<1>9. OnceWritten'
  BY <1>1, <1>3 DEF Once, OnceWritten
<1> QED
  BY <1>7, <1>8, <1>9 DEF Once

LEMMA OncePop ==
    ASSUME TypeOK, Holding, Once, NEW t \in Senders, PopLeft(t)
    PROVE  Once'
<1> USE Processes
<1>1. /\ \A p \in Procs : Live(p)' <=> Live(p)
      /\ Live(ProcOf(t))
      /\ \A p \in Procs, i \in Nat, m \in AllMessages :
            Queued(p, i, m)' => IF p = ProcOf(t) THEN i >= 1 /\ Queued(p, i + 1, m) ELSE Queued(p, i, m)
      /\ \A u \in Senders, m \in AllMessages :
            Held(u, m)' => IF u = t THEN Queued(ProcOf(t), 1, m) ELSE Held(u, m)
      /\ \A m \in AllMessages : ~Held(t, m)
      /\ \A k \in Nat, m \in AllMessages : Wrote(k, m)' <=> Wrote(k, m)
      /\ pushed' = pushed
  BY PopMoves
<1>2. \A m \in AllMessages, p \in Procs : Due(m, p) => Due(m, p)'
  BY <1>1 DEF Due
<1>3. \A i \in Nat : i + 1 \in Nat /\ (i >= 1 => i + 1 # 1)
  OBVIOUS
<1>4. \A i, j \in Nat : i + 1 = j + 1 => i = j
  OBVIOUS
<1>a. /\ \A p \in Procs, i \in Nat, m \in AllMessages :
            Live(p) /\ Queued(p, i, m) => Due(m, p) /\ \A j \in Nat : Queued(p, j, m) => i = j
      /\ \A u \in Senders, m \in AllMessages :
            Held(u, m) => /\ Due(m, ProcOf(u))
                          /\ \A i \in Nat : ~Queued(ProcOf(u), i, m)
                          /\ \A v \in Senders : Held(v, m) => u = v
  BY DEF Once, OnceQueued, OnceHeld
<1>5. OnceQueued'
  <2> SUFFICES ASSUME NEW p \in Procs, NEW i \in Nat, NEW m \in AllMessages, Live(p)', Queued(p, i, m)'
               PROVE  Due(m, p)' /\ \A j \in Nat : Queued(p, j, m)' => i = j
    BY DEF OnceQueued
  <2>1. CASE p = ProcOf(t)
    BY <1>a, <1>1, <1>2, <1>3, <1>4, <2>1
  <2>2. CASE p # ProcOf(t)
    BY <1>a, <1>1, <1>2, <2>2
  <2> QED
    BY <2>1, <2>2
<1>6. OnceHeld'
  <2> SUFFICES ASSUME NEW u \in Senders, NEW m \in AllMessages, Held(u, m)'
               PROVE  /\ Due(m, ProcOf(u))'
                      /\ \A i \in Nat : ~Queued(ProcOf(u), i, m)'
                      /\ \A v \in Senders : Held(v, m)' => u = v
    BY DEF OnceHeld
  <2>0. 1 \in Nat /\ ProcOf(t) \in Procs /\ ProcOf(u) \in Procs
    OBVIOUS
  <2>1. CASE u = t
    <3>1. Queued(ProcOf(t), 1, m)
      BY <1>1, <2>1
    <3>2. Due(m, ProcOf(t)) /\ \A j \in Nat : Queued(ProcOf(t), j, m) => 1 = j
      BY <1>a, <1>1, <2>0, <3>1
    <3>3. \A i \in Nat : ~Queued(ProcOf(t), i, m)'
      BY <1>1, <1>3, <2>0, <3>2
    <3>4. ASSUME NEW v \in Senders, Held(v, m)' PROVE v = t
      <4>1. ASSUME v # t PROVE FALSE
        <5>1. Held(v, m)
          BY <1>1, <3>4, <4>1
        <5>2. Due(m, ProcOf(v)) /\ \A i \in Nat : ~Queued(ProcOf(v), i, m)
          BY <1>a, <5>1
        <5>3. ProcOf(v) = ProcOf(t)
          BY <3>2, <5>2 DEF Due
        <5> QED
          BY <2>0, <3>1, <5>2, <5>3
      <4> QED
        BY <4>1
    <3> QED
      BY <1>2, <2>0, <2>1, <3>2, <3>3, <3>4
  <2>2. CASE u # t
    <3>1. Held(u, m)
      BY <1>1, <2>2
    <3>2. /\ Due(m, ProcOf(u)) /\ (\A i \in Nat : ~Queued(ProcOf(u), i, m))
          /\ \A v \in Senders : Held(v, m) => u = v
      BY <1>a, <3>1
    <3>3. \A i \in Nat : ~Queued(ProcOf(u), i, m)'
      BY <1>1, <1>3, <2>0, <3>2
    <3>4. ~Held(t, m)'
      <4>1. SUFFICES ASSUME Held(t, m)' PROVE FALSE
        OBVIOUS
      <4>2. Queued(ProcOf(t), 1, m)
        BY <1>1, <4>1
      <4>3. Due(m, ProcOf(t))
        BY <1>a, <1>1, <2>0, <4>2
      <4>4. ProcOf(t) = ProcOf(u)
        BY <3>2, <4>3 DEF Due
      <4> QED
        BY <2>0, <3>2, <4>2, <4>4
    <3>5. \A v \in Senders : Held(v, m)' => u = v
      BY <1>1, <3>2, <3>4
    <3> QED
      BY <1>2, <2>0, <3>2, <3>3, <3>5
  <2> QED
    BY <2>1, <2>2
<1>7. OnceWritten'
  BY <1>1 DEF Once, OnceWritten
<1> QED
  BY <1>5, <1>6, <1>7 DEF Once

LEMMA OnceSend ==
    ASSUME TypeOK, Holding, Once, NEW t \in Senders, Send(t)
    PROVE  Once'
<1> USE Processes
<1>1. PICK d \in {0, 1} :
              /\ \A p \in Procs : Live(p)' <=> Live(p)
              /\ Live(ProcOf(t))
              /\ \A p \in Procs, i \in Nat, m \in AllMessages :
                    Queued(p, i, m)' => IF p = ProcOf(t) THEN i - d \in Nat /\ Queued(p, i - d, m)
                                                         ELSE Queued(p, i, m)
              /\ \A u \in Senders, m \in AllMessages : Held(u, m)' => u # t /\ Held(u, m)
              /\ \A k \in Nat, m \in AllMessages :
                    Wrote(k, m)' => Wrote(k, m) \/ (k = Len(written) + 1 /\ Held(t, m))
              /\ \A k \in Nat, m \in AllMessages : Wrote(k, m) => Wrote(k, m)'
              /\ pushed' = pushed
  BY SendMoves
<1>2. \A i, j \in Nat : i - d = j - d => i = j
  OBVIOUS
<1>a. /\ \A p \in Procs, i \in Nat, m \in AllMessages :
            Live(p) /\ Queued(p, i, m) => Due(m, p) /\ \A j \in Nat : Queued(p, j, m) => i = j
      /\ \A u \in Senders, m \in AllMessages :
            Held(u, m) => /\ Due(m, ProcOf(u))
                          /\ \A i \in Nat : ~Queued(ProcOf(u), i, m)
                          /\ \A v \in Senders : Held(v, m) => u = v
      /\ \A k \in Nat, m \in AllMessages :
            Wrote(k, m) => m[2] <= pushed[m[1]] /\ \A l \in Nat : Wrote(l, m) => k = l
  BY DEF Once, OnceQueued, OnceHeld, OnceWritten
<1>3. \A m \in AllMessages, p \in Procs : Due(m, p) /\ ~Held(t, m) => Due(m, p)'
  BY <1>1 DEF Due
<1>4. OnceQueued'
  <2> SUFFICES ASSUME NEW p \in Procs, NEW i \in Nat, NEW m \in AllMessages, Live(p)', Queued(p, i, m)'
               PROVE  Due(m, p)' /\ \A j \in Nat : Queued(p, j, m)' => i = j
    BY DEF OnceQueued
  <2>1. PICK k \in Nat : Queued(p, k, m) /\ (p = ProcOf(t) => k = i - d) /\ (p # ProcOf(t) => k = i)
    BY <1>1
  <2>2. Due(m, p) /\ \A j \in Nat : Queued(p, j, m) => k = j
    BY <1>a, <1>1, <2>1
  <2>3. ~Held(t, m)
    BY <1>a, <2>1, <2>2 DEF Due
  <2>4. \A j \in Nat : Queued(p, j, m)' => i = j
    BY <1>1, <1>2, <2>1, <2>2
  <2> QED
    BY <1>3, <2>2, <2>3, <2>4
<1>5. OnceHeld'
  <2> SUFFICES ASSUME NEW u \in Senders, NEW m \in AllMessages, Held(u, m)'
               PROVE  /\ Due(m, ProcOf(u))'
                      /\ \A i \in Nat : ~Queued(ProcOf(u), i, m)'
                      /\ \A v \in Senders : Held(v, m)' => u = v
    BY DEF OnceHeld
  <2>1. u # t /\ Held(u, m) /\ ProcOf(u) \in Procs
    BY <1>1
  <2>2. /\ Due(m, ProcOf(u)) /\ (\A i \in Nat : ~Queued(ProcOf(u), i, m))
        /\ \A v \in Senders : Held(v, m) => u = v
    BY <1>a, <2>1
  <2>3. ~Held(t, m)
    BY <2>1, <2>2
  <2> QED
    BY <1>1, <1>3, <2>1, <2>2, <2>3
<1>6. OnceWritten'
  <2> SUFFICES ASSUME NEW k \in Nat, NEW m \in AllMessages, Wrote(k, m)'
               PROVE  m[2] <= pushed[m[1]] /\ \A l \in Nat : Wrote(l, m)' => k = l
    BY <1>1 DEF OnceWritten
  <2>1. CASE \E l \in Nat : Wrote(l, m)
    <3>1. ~Held(t, m)
      BY <1>a, <2>1 DEF Due
    <3> QED
      BY <1>a, <1>1, <3>1
  <2>2. CASE \A l \in Nat : ~Wrote(l, m)
    <3>1. Held(t, m) /\ \A l \in Nat : Wrote(l, m)' => l = Len(written) + 1
      BY <1>1, <2>2
    <3>2. m[2] <= pushed[m[1]]
      BY <1>a, <3>1 DEF Due
    <3> QED
      BY <3>1, <3>2
  <2> QED
    BY <2>1, <2>2
<1> QED
  BY <1>4, <1>5, <1>6 DEF Once

LEMMA OnceStep ==
    ASSUME FitsBlock
    PROVE  TypeOK /\ Holding /\ Drained /\ Once /\ [Next]_vars => Once'
<1> SUFFICES ASSUME TypeOK, Holding, Drained, Once, [Next]_vars PROVE Once'
  OBVIOUS
<1> USE Processes
<1>1. ASSUME NEW c \in Children, Fork(c) PROVE Once'
  <2>1. /\ \A p \in Procs : Live(p)' => p = c \/ Live(p)
        /\ Live(c)' => \A i \in Nat, m \in AllMessages : ~Queued(c, i, m)'
        /\ \A p \in Procs, i \in Nat, m \in AllMessages : p # c /\ Queued(p, i, m)' => Queued(p, i, m)
        /\ \A m \in AllMessages : ~Held(c, m)
        /\ \A u \in Senders, m \in AllMessages : Held(u, m)' <=> Held(u, m)
        /\ \A k \in Nat, m \in AllMessages : Wrote(k, m)' <=> Wrote(k, m)
        /\ pushed' = pushed
    BY <1>1, ForkMoves
  <2>2. \A m \in AllMessages, p \in Procs : Due(m, p) => Due(m, p)'
    BY <2>1 DEF Due
  <2>3. \A u \in Senders, m \in AllMessages : Held(u, m)' => ProcOf(u) # c
    BY <2>1
  <2>4. OnceQueued'
    BY <2>1, <2>2 DEF Once, OnceQueued
  <2>5. OnceHeld'
    BY <2>1, <2>2, <2>3 DEF Once, OnceHeld
  <2>6. OnceWritten'
    BY <2>1 DEF Once, OnceWritten
  <2> QED
    BY <2>4, <2>5, <2>6 DEF Once
<1>2. CASE Aside \/ UNCHANGED vars
  <2>1. /\ \A p \in Procs : Live(p)' => Live(p)
        /\ \A p \in Procs, i \in Nat, m \in AllMessages : Queued(p, i, m)' => Queued(p, i, m)
        /\ \A u \in Senders, m \in AllMessages : Held(u, m)' <=> Held(u, m)
        /\ \A k \in Nat, m \in AllMessages : Wrote(k, m)' <=> Wrote(k, m)
        /\ pushed' = pushed
    BY <1>2, AsideMoves
  <2>2. \A m \in AllMessages, p \in Procs : Due(m, p) => Due(m, p)'
    BY <2>1 DEF Due
  <2>3. OnceQueued'
    BY <2>1, <2>2 DEF Once, OnceQueued
  <2>4. OnceHeld'
    BY <2>1, <2>2 DEF Once, OnceHeld
  <2>5. OnceWritten'
    BY <2>1 DEF Once, OnceWritten
  <2> QED
    BY <2>3, <2>4, <2>5 DEF Once
<1>3. ASSUME NEW t \in Pushers, Push(t) PROVE Once'
  BY <1>3, OncePush
<1>4. ASSUME NEW t \in Senders, PopLeft(t) PROVE Once'
  BY <1>4, OncePop
<1>5. ASSUME NEW t \in Senders, Send(t) PROVE Once'
  BY <1>5, OnceSend
<1> QED
  BY <1>1, <1>2, <1>3, <1>4, <1>5 DEF Next, Aside
-----------------------------------------------------------------------------
(* The messages of a child are begun in their order *)

LEMMA InOrderStep ==
    ASSUME FitsBlock
    PROVE  TypeOK /\ Holding /\ Drained /\ Once /\ InOrder /\ [Next]_vars => InOrder'
<1> SUFFICES ASSUME TypeOK, Holding, Drained, Once, InOrder, [Next]_vars,
                    NEW c \in Children, NEW m \in AllMessages, NEW q \in AllMessages, m[1] = c, q[1] = c
             PROVE  /\ \A k, l \in Nat : Wrote(k, m)' /\ Wrote(l, q)' /\ k < l => m[2] < q[2]
                    /\ \A k \in Nat : Wrote(k, m)' /\ Held(c, q)' => m[2] < q[2]
                    /\ Live(c)' => \A j \in Nat : Queued(c, j, q)' =>
                          /\ \A k \in Nat : Wrote(k, m)' => m[2] < q[2]
                          /\ Held(c, m)' => m[2] < q[2]
                          /\ \A i \in Nat : Queued(c, i, m)' /\ i < j => m[2] < q[2]
  BY DEF InOrder
<1> USE Processes
<1> DEFINE Before == m[2] < q[2]
           Goal == /\ \A k, l \in Nat : Wrote(k, m)' /\ Wrote(l, q)' /\ k < l => Before
                   /\ \A k \in Nat : Wrote(k, m)' /\ Held(c, q)' => Before
                   /\ Live(c)' => \A j \in Nat : Queued(c, j, q)' =>
                         /\ \A k \in Nat : Wrote(k, m)' => Before
                         /\ Held(c, m)' => Before
                         /\ \A i \in Nat : Queued(c, i, m)' /\ i < j => Before
<1>a. /\ \A k, l \in Nat : Wrote(k, m) /\ Wrote(l, q) /\ k < l => Before
      /\ \A k \in Nat : Wrote(k, m) /\ Held(c, q) => Before
      /\ Live(c) => \A j \in Nat : Queued(c, j, q) =>
            /\ \A k \in Nat : Wrote(k, m) => Before
            /\ Held(c, m) => Before
            /\ \A i \in Nat : Queued(c, i, m) /\ i < j => Before
  BY DEF InOrder
<1>b. c \in Senders /\ c \in Procs /\ ProcOf(c) = c
  OBVIOUS
<1>c. /\ Held(c, m) => m[2] <= pushed[c]
      /\ \A k \in Nat : Wrote(k, m) => m[2] <= pushed[c]
      /\ Live(c) => \A i \in Nat : Queued(c, i, m) => m[2] <= pushed[c]
  BY <1>b DEF Once, OnceHeld, OnceQueued, OnceWritten, Due
<1>d. /\ \A t \in Senders : Held(t, m) \/ Held(t, q) => t = c
      /\ \A k \in Nat : Wrote(k, q) => ~Held(c, q) /\ (Live(c) => \A j \in Nat : ~Queued(c, j, q))
      /\ \A k, l \in Nat : Wrote(k, q) /\ Wrote(l, q) => k = l
  <2>1. \A t \in Senders : ProcOf(t) = c => t = c
    OBVIOUS
  <2> QED
    BY <1>b, <2>1 DEF Once, OnceHeld, OnceQueued, OnceWritten, Due
<1>e. m[2] \in Nat /\ q[2] \in Nat /\ pushed[c] \in Nat /\ Len(written) \in Nat
      /\ \A k : Wrote(k, m) \/ Wrote(k, q) => k <= Len(written)
  <2>1. m[2] \in Nat /\ q[2] \in Nat /\ Len(written) \in Nat
    BY Names
  <2>2. \A k : Wrote(k, m) \/ Wrote(k, q) => k <= Len(written)
    BY Names
  <2>3. pushed \in [Pushers -> 0 .. Messages] /\ Messages \in Nat /\ c \in Pushers
    BY BackendChannelAssumption DEF TypeOK
  <2>4. pushed[c] \in Nat
    BY <2>3
  <2> QED
    BY <2>1, <2>2, <2>4
<1> SUFFICES Goal
  OBVIOUS
<1>1. ASSUME NEW t \in Pushers, Push(t) PROVE Goal
  <2>1. PICK n \in Nat, x \in AllMessages :
              /\ x[1] = t /\ x[2] = pushed[t] + 1
              /\ \A p \in Procs : Live(p)' => Live(p)
              /\ \A p \in Procs, i \in Nat, r \in AllMessages :
                    Queued(p, i, r)' => Queued(p, i, r) \/ (p = ProcOf(t) /\ i = n /\ r = x)
              /\ \A i \in Nat, r \in AllMessages : Queued(ProcOf(t), i, r) => i < n
              /\ \A u \in Senders, r \in AllMessages : Held(u, r)' <=> Held(u, r)
              /\ \A k \in Nat, r \in AllMessages : Wrote(k, r)' <=> Wrote(k, r)
    BY <1>1, PushMoves
  <2>2. q = x => /\ Held(c, m) => Before
                 /\ \A k \in Nat : Wrote(k, m) => Before
                 /\ Live(c) => \A i \in Nat : Queued(c, i, m) => Before
    BY <1>c, <1>e, <2>1
  <2>3. /\ \A k, l \in Nat : Wrote(k, m)' /\ Wrote(l, q)' /\ k < l => Before
        /\ \A k \in Nat : Wrote(k, m)' /\ Held(c, q)' => Before
    BY <1>a, <1>b, <2>1
  <2>4. ASSUME Live(c)', NEW j \in Nat, Queued(c, j, q)'
        PROVE  /\ \A k \in Nat : Wrote(k, m)' => Before
               /\ Held(c, m)' => Before
               /\ \A i \in Nat : Queued(c, i, m)' /\ i < j => Before
    <3>1. Live(c)
      BY <1>b, <2>1, <2>4
    <3> HIDE DEF Before
    <3>2. CASE Queued(c, j, q)
      <4>1. ASSUME NEW i \in Nat, Queued(c, i, m)', i < j PROVE Queued(c, i, m)
        <5>1. ~(c = ProcOf(t) /\ i = n)
          BY <2>1, <3>2, <4>1
        <5> QED
          BY <1>b, <2>1, <4>1, <5>1
      <4> QED
        BY <1>a, <1>b, <2>1, <3>1, <3>2, <4>1
    <3>3. CASE c = ProcOf(t) /\ j = n /\ q = x
      <4>1. ASSUME NEW i \in Nat, Queued(c, i, m)', i < j PROVE Queued(c, i, m)
        BY <1>b, <2>1, <3>3, <4>1
      <4> QED
        BY <1>b, <2>1, <2>2, <3>1, <3>3, <4>1
    <3> QED
      BY <1>b, <2>1, <2>4, <3>2, <3>3
  <2> QED
    BY <2>3, <2>4
<1>2. ASSUME NEW t \in Senders, PopLeft(t) PROVE Goal
  <2> HIDE DEF Before
  <2>1. /\ \A p \in Procs : Live(p)' <=> Live(p)
        /\ Live(ProcOf(t))
        /\ \A p \in Procs, i \in Nat, r \in AllMessages :
              Queued(p, i, r)' => IF p = ProcOf(t) THEN i >= 1 /\ Queued(p, i + 1, r) ELSE Queued(p, i, r)
        /\ \A u \in Senders, r \in AllMessages :
              Held(u, r)' => IF u = t THEN Queued(ProcOf(t), 1, r) ELSE Held(u, r)
        /\ \A k \in Nat, r \in AllMessages : Wrote(k, r)' <=> Wrote(k, r)
    BY <1>2, PopMoves
  <2>2. \A i, j \in Nat : i + 1 \in Nat /\ (i < j => i + 1 < j + 1) /\ (j >= 1 => 1 < j + 1)
    OBVIOUS
  <2>3. CASE t = c
    BY <1>a, <1>b, <2>1, <2>2, <2>3
  <2>4. CASE t # c
    <3>1. ProcOf(t) # c
      BY <2>4
    <3> QED
      BY <1>a, <1>b, <2>1, <2>4, <3>1
  <2> QED
    BY <2>3, <2>4
<1>3. ASSUME NEW t \in Senders, Send(t) PROVE Goal
  <2> HIDE DEF Before
  <2>1. PICK d \in {0, 1} :
              /\ \A p \in Procs : Live(p)' <=> Live(p)
              /\ Live(ProcOf(t))
              /\ \A p \in Procs, i \in Nat, r \in AllMessages :
                    Queued(p, i, r)' => IF p = ProcOf(t) THEN i - d \in Nat /\ Queued(p, i - d, r)
                                                         ELSE Queued(p, i, r)
              /\ \A u \in Senders, r \in AllMessages : Held(u, r)' => u # t /\ Held(u, r)
              /\ \A k \in Nat, r \in AllMessages :
                    Wrote(k, r)' => Wrote(k, r) \/ (k = Len(written) + 1 /\ Held(t, r))
    BY <1>3, SendMoves
  <2>2. \A i, j \in Nat : i < j => i - d < j - d
    OBVIOUS
  <2>3. \A k \in Nat : (Wrote(k, m)' => Wrote(k, m) \/ (k = Len(written) + 1 /\ Held(c, m) /\ t = c))
                    /\ (Wrote(k, q)' => Wrote(k, q) \/ (k = Len(written) + 1 /\ Held(c, q) /\ t = c))
    BY <1>d, <2>1
  <2>4. ASSUME NEW k \in Nat, NEW l \in Nat, Wrote(k, m)', Wrote(l, q)', k < l PROVE Before
    <3>1. CASE Wrote(l, q)
      <4>1. l <= Len(written)
        BY <1>e, <3>1
      <4>2. Wrote(k, m)
        BY <1>e, <2>3, <2>4, <4>1
      <4> QED
        BY <1>a, <2>4, <3>1, <4>2
    <3>2. CASE l = Len(written) + 1 /\ Held(c, q)
      <4>1. Wrote(k, m)
        BY <1>e, <2>3, <2>4, <3>2
      <4> QED
        BY <1>a, <3>2, <4>1
    <3> QED
      BY <2>3, <2>4, <3>1, <3>2
  <2>5. ASSUME NEW k \in Nat, Wrote(k, m)', Held(c, q)' PROVE Before
    <3>1. t # c /\ Held(c, q)
      BY <1>b, <2>1, <2>5
    <3> QED
      BY <1>a, <2>3, <2>5, <3>1
  <2>6. ASSUME Live(c)', NEW j \in Nat, Queued(c, j, q)'
        PROVE  /\ \A k \in Nat : Wrote(k, m)' => Before
               /\ Held(c, m)' => Before
               /\ \A i \in Nat : Queued(c, i, m)' /\ i < j => Before
    <3>1. Live(c)
      BY <1>b, <2>1, <2>6
    <3>2. CASE c = ProcOf(t)
      <4>1. j - d \in Nat /\ Queued(c, j - d, q)
        BY <1>b, <2>1, <2>6, <3>2
      <4>2. ASSUME NEW i \in Nat, Queued(c, i, m)', i < j PROVE Before
        <5>1. i - d \in Nat /\ Queued(c, i - d, m) /\ i - d < j - d
          BY <1>b, <2>1, <2>2, <3>2, <4>2
        <5> QED
          BY <1>a, <3>1, <4>1, <5>1
      <4> QED
        BY <1>a, <1>b, <2>1, <2>3, <3>1, <4>1, <4>2
    <3>3. CASE c # ProcOf(t)
      <4>1. Queued(c, j, q) /\ \A i \in Nat : Queued(c, i, m)' => Queued(c, i, m)
        BY <1>b, <2>1, <2>6, <3>3
      <4> QED
        BY <1>a, <1>b, <2>1, <2>3, <3>1, <4>1
    <3> QED
      BY <3>2, <3>3
  <2> QED
    BY <2>4, <2>5, <2>6
<1>4. ASSUME NEW e \in Children, Fork(e) PROVE Goal
  <2> HIDE DEF Before
  <2>1. /\ \A p \in Procs : Live(p)' => p = e \/ Live(p)
        /\ Live(e)' => \A i \in Nat, r \in AllMessages : ~Queued(e, i, r)'
        /\ \A p \in Procs, i \in Nat, r \in AllMessages : p # e /\ Queued(p, i, r)' => Queued(p, i, r)
        /\ \A u \in Senders, r \in AllMessages : Held(u, r)' <=> Held(u, r)
        /\ \A k \in Nat, r \in AllMessages : Wrote(k, r)' <=> Wrote(k, r)
    BY <1>4, ForkMoves
  <2> QED
    BY <1>a, <1>b, <2>1
<1>5. CASE Aside \/ UNCHANGED vars
  <2> HIDE DEF Before
  <2>1. /\ \A p \in Procs : Live(p)' => Live(p)
        /\ \A p \in Procs, i \in Nat, r \in AllMessages : Queued(p, i, r)' => Queued(p, i, r)
        /\ \A u \in Senders, r \in AllMessages : Held(u, r)' <=> Held(u, r)
        /\ \A k \in Nat, r \in AllMessages : Wrote(k, r)' <=> Wrote(k, r)
    BY <1>5, AsideMoves
  <2> QED
    BY <1>a, <1>b, <2>1
<1> QED
  BY <1>1, <1>2, <1>3, <1>4, <1>5 DEF Next, Aside
-----------------------------------------------------------------------------
(* The stream follows the order in which messages are begun *)

\* The sequences of the stream, unit by unit.
LEMMA Streams ==
    ASSUME NEW s \in Seq(Units), NEW r \in Seq(Units)
    PROVE  /\ Len(s) \in Nat /\ DOMAIN s = 1 .. Len(s) /\ DOMAIN (s \o r) = 1 .. Len(s) + Len(r)
           /\ s \o r \in Seq(Units) /\ Len(s \o r) = Len(s) + Len(r) /\ Len(r) \in Nat
           /\ \A i \in 1 .. Len(s) : (s \o r)[i] = s[i]
           /\ \A i \in Len(s) + 1 .. Len(s) + Len(r) : (s \o r)[i] = r[i - Len(s)]
           /\ r # <<>> => /\ Append(s, Head(r)) \o Tail(r) = s \o r
                          /\ Tail(r) \in Seq(Units) /\ Len(Tail(r)) = Len(r) - 1 /\ Len(r) > 0
                          /\ r[1] = Head(r) /\ \A i \in 1 .. Len(r) - 1 : Tail(r)[i] = r[i + 1]
<1>1. /\ Len(s) \in Nat /\ Len(r) \in Nat /\ DOMAIN s = 1 .. Len(s)
      /\ DOMAIN (s \o r) = 1 .. Len(s) + Len(r)
      /\ s \o r \in Seq(Units) /\ Len(s \o r) = Len(s) + Len(r)
  BY ConcatProperties, LenProperties
<1>2. \A i \in 1 .. Len(s) + Len(r) : (s \o r)[i] = IF i <= Len(s) THEN s[i] ELSE r[i - Len(s)]
  BY ConcatProperties
<1>3. /\ \A i \in 1 .. Len(s) : (s \o r)[i] = s[i]
      /\ \A i \in Len(s) + 1 .. Len(s) + Len(r) : (s \o r)[i] = r[i - Len(s)]
  BY <1>1, <1>2
<1>4. ASSUME r # <<>>
      PROVE  /\ Tail(r) \in Seq(Units) /\ Len(Tail(r)) = Len(r) - 1 /\ Len(r) > 0
             /\ r[1] = Head(r) /\ (\A i \in 1 .. Len(r) - 1 : Tail(r)[i] = r[i + 1])
             /\ Head(r) \in Units
  BY <1>4, HeadTailProperties
<1>5. ASSUME r # <<>> PROVE Append(s, Head(r)) \o Tail(r) = s \o r
  <2> DEFINE a == Append(s, Head(r))
             x == a \o Tail(r)
             y == s \o r
  <2>1. /\ a \in Seq(Units) /\ Len(a) = Len(s) + 1 /\ a[Len(s) + 1] = Head(r)
        /\ \A i \in 1 .. Len(s) : a[i] = s[i]
    BY <1>4, <1>5, AppendProperties
  <2> HIDE DEF a
  <2>2. /\ x \in Seq(Units) /\ Len(x) = Len(a) + Len(Tail(r))
        /\ \A i \in 1 .. Len(a) + Len(Tail(r)) : x[i] = IF i <= Len(a) THEN a[i] ELSE Tail(r)[i - Len(a)]
    BY <1>4, <1>5, <2>1, ConcatProperties
  <2>3. y \in Seq(Units) /\ Len(y) = Len(s) + Len(r)
        /\ \A i \in 1 .. Len(s) + Len(r) : y[i] = IF i <= Len(s) THEN s[i] ELSE r[i - Len(s)]
    BY <1>1, <1>2
  <2> HIDE DEF x, y
  <2>4. Len(x) = Len(y)
    BY <1>1, <1>4, <1>5, <2>1, <2>2, <2>3
  <2>5. ASSUME NEW i \in 1 .. Len(y) PROVE x[i] = y[i]
    <3>1. CASE i <= Len(s)
      BY <1>1, <1>4, <1>5, <2>1, <2>2, <2>3, <3>1
    <3>2. CASE i = Len(s) + 1
      <4>1. i - Len(s) = 1 /\ i <= Len(a) /\ ~(i <= Len(s)) /\ i \in 1 .. Len(a) + Len(Tail(r))
        BY <1>1, <1>4, <1>5, <2>1, <3>2
      <4>2. x[i] = a[i] /\ y[i] = r[1]
        BY <2>2, <2>3, <4>1
      <4> QED
        BY <1>4, <1>5, <2>1, <3>2, <4>2
    <3>3. CASE i > Len(s) + 1
      <4>1. i - Len(a) \in 1 .. Len(r) - 1 /\ (i - Len(a)) + 1 = i - Len(s) /\ ~(i <= Len(a)) /\ ~(i <= Len(s))
        BY <1>1, <2>1, <2>3, <3>3
      <4>2. x[i] = Tail(r)[i - Len(a)] /\ y[i] = r[i - Len(s)]
        BY <2>2, <2>3, <2>4, <4>1
      <4> QED
        BY <1>4, <1>5, <4>1, <4>2
    <3> QED
      BY <1>1, <2>3, <3>1, <3>2, <3>3
  <2> QED
    BY <2>2, <2>3, <2>4, <2>5, SeqEqual DEF x, y, a
<1> QED
  BY <1>1, <1>3, <1>4, <1>5

\* The stream after initiate_send.
LEMMA SendStream ==
    ASSUME TypeOK, NEW t \in Senders, NEW n, Sends(t, n), line' = line
    PROVE  /\ Stream \in Seq(Units) /\ Len(Stream') = Len(Stream) + n /\ n \in Nat
           /\ \A i \in 1 .. Len(Stream) : Stream'[i] = Stream[i]
           /\ \A j \in 1 .. n : Stream'[Len(Stream) + j] = hand[t][j]
<1> DEFINE b == hand[t]
           s == SubSeq(b, 1, n)
           l == Len(line)
           w == Len(wire)
<1>1. /\ b \in Seq(Units) /\ Len(b) \in Nat /\ n \in 0 .. Len(b) /\ wire' = wire \o s
  BY DEF Sends
<1>2. line \in Seq(Units) /\ wire \in Seq(Units)
  BY DEF TypeOK
<1> HIDE DEF b
<1>3. s \in Seq(Units) /\ Len(s) = n /\ \A j \in 1 .. n : s[j] = b[j]
  BY <1>1, SubSeqProperties
<1> HIDE DEF s
<1>4. /\ l \in Nat /\ w \in Nat /\ Stream \in Seq(Units) /\ Len(Stream) = l + w
      /\ \A i \in 1 .. l : Stream[i] = line[i]
      /\ \A i \in l + 1 .. l + w : Stream[i] = wire[i - l]
  BY <1>2, Streams DEF Stream
<1>5. /\ wire' \in Seq(Units) /\ Len(wire') = w + n
      /\ \A i \in 1 .. w : wire'[i] = wire[i]
      /\ \A i \in w + 1 .. w + n : wire'[i] = s[i - w]
  BY <1>1, <1>2, <1>3, Streams
<1>6. /\ Len(Stream') = l + (w + n)
      /\ \A i \in 1 .. l : Stream'[i] = line[i]
      /\ \A i \in l + 1 .. l + (w + n) : Stream'[i] = wire'[i - l]
  <2>1. Stream' = line \o wire'
    BY DEF Stream
  <2>2. \A r \in Seq(Units) : /\ Len(line \o r) = l + Len(r)
                              /\ \A i \in 1 .. l : (line \o r)[i] = line[i]
                              /\ \A i \in l + 1 .. l + Len(r) : (line \o r)[i] = r[i - l]
    BY <1>2, Streams
  <2> HIDE DEF l, w
  <2> QED
    BY <1>5, <2>1, <2>2
<1> HIDE DEF l, w
<1>7. ASSUME NEW i \in 1 .. Len(Stream) PROVE Stream'[i] = Stream[i]
  <2>1. CASE i <= l
    BY <1>4, <1>6, <2>1
  <2>2. CASE i > l
    <3>1. i - l \in 1 .. w /\ i \in l + 1 .. l + w /\ i \in l + 1 .. l + (w + n)
      BY <1>1, <1>4, <2>2
    <3> QED
      BY <1>4, <1>5, <1>6, <3>1
  <2> QED
    BY <1>4, <2>1, <2>2
<1>8. ASSUME NEW j \in 1 .. n PROVE Stream'[Len(Stream) + j] = b[j]
  <2> DEFINE i == l + w + j
  <2>0. l \in Nat /\ w \in Nat /\ n \in Nat /\ j \in Nat /\ 1 <= j /\ j <= n /\ Len(Stream) = l + w
    BY <1>1, <1>4
  <2>1. i \in l + 1 .. l + (w + n) /\ i - l = w + j /\ w + j \in w + 1 .. w + n /\ (w + j) - w = j /\ i = Len(Stream) + j
    BY <2>0
  <2> HIDE DEF i
  <2> QED
    BY <1>3, <1>5, <1>6, <2>1
<1>9. Len(Stream') = Len(Stream) + n /\ n \in Nat
  BY <1>1, <1>4, <1>6
<1> QED
  BY <1>4, <1>7, <1>8, <1>9 DEF b

\* The stream when handle_read takes a unit: a unit of a message stays in it.
LEMMA ReadStream ==
    ASSUME TypeOK, HandleRead
    PROVE  /\ Stream \in Seq(Units) /\ Stream' \in Seq(Units)
           /\ \A i \in 1 .. Len(line) : Stream[i] = line[i]
           /\ \A i \in 1 .. Len(wire) : Stream[Len(line) + i] = wire[i]
           /\ Stream[Len(line) + 1] = Head(wire) /\ Len(line) \in Nat /\ Len(line) < Len(Stream)
           /\ Len(Stream) = Len(line) + Len(wire)
           /\ Head(wire) # Term => Stream' = Stream
<1> DEFINE l == Len(line)
           w == Len(wire)
<1>1. line \in Seq(Units) /\ wire \in Seq(Units) /\ wire # <<>> /\ wire' = Tail(wire) /\ Head(wire) \in Units
  BY Reads DEF TypeOK
<1>0. line' \in Seq(Units)
  <2>1. \A n \in 1 .. Len(line) : SubSeq(line, n + 1, Len(line)) \in Seq(Units)
    BY <1>1
  <2>2. Append(line, Head(wire)) \in Seq(Units) /\ <<>> \in Seq(Units)
    BY <1>1
  <2> QED
    BY <1>1, <2>1, <2>2, Reads
<1>2. /\ l \in Nat /\ w \in Nat /\ w > 0 /\ Stream \in Seq(Units) /\ Len(Stream) = l + w
      /\ \A i \in 1 .. l : Stream[i] = line[i]
      /\ \A i \in l + 1 .. l + w : Stream[i] = wire[i - l]
      /\ Append(line, Head(wire)) \o Tail(wire) = Stream
      /\ Tail(wire) \in Seq(Units) /\ wire[1] = Head(wire)
  BY <1>1, Streams DEF Stream
<1>3. ASSUME NEW i \in 1 .. w PROVE Stream[l + i] = wire[i]
  <2>1. l + i \in l + 1 .. l + w /\ (l + i) - l = i
    BY <1>2
  <2> QED
    BY <1>2, <2>1
<1>4. Stream[l + 1] = Head(wire)
  BY <1>2, <1>3
<1>5. Stream' \in Seq(Units)
  BY <1>0, <1>1, <1>2, Streams DEF Stream
<1>6. ASSUME Head(wire) # Term PROVE Stream' = Stream
  <2>1. line' = Append(line, Head(wire))
    BY <1>6, Reads
  <2> QED
    BY <1>1, <1>2, <2>1 DEF Stream
<1> QED
  BY <1>2, <1>3, <1>4, <1>5, <1>6

\* A terminator leaves it, with the units of the line that are taken.
LEMMA TakeStream ==
    ASSUME TypeOK, HandleRead, Head(wire) = Term,
           NEW n \in 0 .. Len(line), line' = SubSeq(line, n + 1, Len(line))
    PROVE  /\ Len(Stream') = Len(Stream) - (n + 1)
           /\ \A i \in 1 .. Len(Stream') :
                 Stream'[i] = Stream[IF i <= Len(line) - n THEN i + n ELSE i + n + 1]
<1> DEFINE l == Len(line)
           w == Len(wire)
           rest == SubSeq(line, n + 1, l)
<1>1. line \in Seq(Units) /\ wire \in Seq(Units) /\ wire # <<>> /\ wire' = Tail(wire)
  BY Reads DEF TypeOK
<1>2. /\ l \in Nat /\ w \in Nat /\ w > 0 /\ Len(Stream) = l + w
      /\ \A i \in 1 .. l : Stream[i] = line[i]
      /\ \A i \in 1 .. w : Stream[l + i] = wire[i]
      /\ Tail(wire) \in Seq(Units) /\ Len(Tail(wire)) = w - 1
      /\ \A i \in 1 .. w - 1 : Tail(wire)[i] = wire[i + 1]
  BY <1>1, Streams, ReadStream
<1>3. rest \in Seq(Units) /\ Len(rest) = l - n /\ \A i \in 1 .. l - n : rest[i] = line[i + n]
  BY <1>1
<1>4. /\ Len(Stream') = (l - n) + (w - 1)
      /\ \A i \in 1 .. l - n : Stream'[i] = rest[i]
      /\ \A i \in (l - n) + 1 .. (l - n) + (w - 1) : Stream'[i] = Tail(wire)[i - (l - n)]
  <2>1. Stream' = rest \o Tail(wire)
    BY <1>1 DEF Stream
  <2>2. \A a, b \in Seq(Units) :
           /\ Len(a \o b) = Len(a) + Len(b)
           /\ \A i \in 1 .. Len(a) : (a \o b)[i] = a[i]
           /\ \A i \in Len(a) + 1 .. Len(a) + Len(b) : (a \o b)[i] = b[i - Len(a)]
    BY Streams
  <2> HIDE DEF rest, l, w
  <2>3. /\ Len(Stream') = Len(rest) + Len(Tail(wire))
        /\ \A i \in 1 .. Len(rest) : Stream'[i] = rest[i]
        /\ \A i \in Len(rest) + 1 .. Len(rest) + Len(Tail(wire)) : Stream'[i] = Tail(wire)[i - Len(rest)]
    BY <1>2, <1>3, <2>1, <2>2
  <2> QED
    BY <1>2, <1>3, <2>3
<1> HIDE DEF l, w, rest
<1>5. Len(Stream') = Len(Stream) - (n + 1)
  BY <1>2, <1>4 DEF l
<1>6. ASSUME NEW i \in 1 .. Len(Stream')
      PROVE  Stream'[i] = Stream[IF i <= l - n THEN i + n ELSE i + n + 1]
  <2>1. CASE i <= l - n
    <3>1. i \in 1 .. l - n /\ i + n \in 1 .. l
      BY <1>2, <1>4, <2>1 DEF l
    <3> QED
      BY <1>2, <1>3, <1>4, <2>1, <3>1
  <2>2. CASE ~(i <= l - n)
    <3> DEFINE j == i - (l - n)
    <3>1. /\ i \in (l - n) + 1 .. (l - n) + (w - 1) /\ j \in 1 .. w - 1
          /\ j + 1 \in 1 .. w /\ l + (j + 1) = i + n + 1
      BY <1>2, <1>4, <2>2 DEF l
    <3>2. Stream'[i] = Tail(wire)[j]
      BY <1>4, <3>1
    <3> HIDE DEF j
    <3> QED
      BY <1>2, <2>2, <3>1, <3>2
  <2> QED
    BY <2>1, <2>2
<1> QED
  BY <1>5, <1>6 DEF l

\* Messages handled and ahead after initiate_send, and after handle_read.
LEMMA SendAhead ==
    ASSUME TypeOK, NEW t \in Senders, Send(t)
    PROVE  /\ \A i \in Nat, m \in AllMessages :
                 Ahead(i, m)' => \/ Ahead(i, m)
                                 \/ i = Len(Stream) + 1 /\ \A k \in Nat : k = Len(written) + 1 => Wrote(k, m)'
           /\ \A i \in Nat, m \in AllMessages : Ahead(i, m) => i <= Len(Stream)
           /\ \A i \in Nat, m \in AllMessages : Handled(i, m)' <=> Handled(i, m)
           /\ Len(Stream) \in Nat /\ Len(written) \in Nat
<1>1. PICK n : Sends(t, n)
  BY SendEffect
<1>2. line' = line /\ got' = got
  BY DEF Send
<1>3. /\ Stream \in Seq(Units) /\ Len(Stream') = Len(Stream) + n /\ n \in Nat
      /\ \A i \in 1 .. Len(Stream) : Stream'[i] = Stream[i]
      /\ \A j \in 1 .. n : Stream'[Len(Stream) + j] = hand[t][j]
  BY <1>1, <1>2, SendStream
<1>4. Len(Stream) \in Nat /\ DOMAIN Stream = 1 .. Len(Stream) /\ DOMAIN Stream' = 1 .. Len(Stream')
  <2>1. line \in Seq(Units) /\ wire \in Seq(Units) /\ wire' = wire \o SubSeq(hand[t], 1, n)
        /\ hand[t] \in Seq(Units) /\ n \in 0 .. Len(hand[t])
    BY <1>1 DEF TypeOK, Sends
  <2>2. wire' \in Seq(Units)
    BY <2>1, SubSeqProperties, ConcatProperties
  <2>3. Stream' \in Seq(Units)
    BY <1>2, <2>1, <2>2, ConcatProperties DEF Stream
  <2> QED
    BY <1>3, <2>3
<1>5. Len(written) \in Nat /\ written \in Seq(AllMessages)
  BY DEF TypeOK
<1>6. ASSUME NEW i \in Nat, NEW m \in AllMessages, Ahead(i, m)', i > Len(Stream)
      PROVE  i = Len(Stream) + 1 /\ \A k \in Nat : k = Len(written) + 1 => Wrote(k, m)'
  <2> DEFINE j == i - Len(Stream)
  <2>1. i \in 1 .. Len(Stream) + n /\ Stream'[i] = <<m[1], m[2], 1>>
    BY <1>3, <1>4, <1>6 DEF Ahead
  <2>2. j \in 1 .. n /\ i = Len(Stream) + j
    BY <1>3, <1>4, <1>6, <2>1
  <2> HIDE DEF j
  <2>3. hand[t][j] = <<m[1], m[2], 1>> /\ hand[t] \in Pieces /\ n \in 0 .. Len(hand[t]) /\ Len(hand[t]) \in Nat
    BY <1>1, <1>3, <2>1, <2>2 DEF Sends
  <2>4. \A k \in 2 .. Len(hand[t]) : hand[t][k][3] # 1
    BY <2>3, PieceType
  <2>5. j = 1
    <3>1. hand[t][j][3] = 1
      BY <2>3
    <3>2. j \in 1 .. Len(hand[t])
      BY <2>2, <2>3
    <3> QED
      BY <2>3, <2>4, <3>1, <3>2
  <2>6. m = <<m[1], m[2]>>
    BY Serials
  <2>7. Whole(hand[t]) /\ Name(hand[t]) = m /\ n > 0
    BY <2>2, <2>3, <2>5, <2>6, PieceType DEF Whole, Name
  <2>8. written' = Append(written, m)
    BY <1>1, <2>7 DEF Sends
  <2>9. ASSUME NEW k \in Nat, k = Len(written) + 1 PROVE Wrote(k, m)'
    <3>1. Len(written) + 1 \in DOMAIN Append(written, m) /\ Append(written, m)[Len(written) + 1] = m
      BY <1>5, AppendProperties
    <3> QED
      BY <2>8, <2>9, <3>1 DEF Wrote
  <2> QED
    BY <2>2, <2>5, <2>9
<1>7. ASSUME NEW i \in Nat, NEW m \in AllMessages, Ahead(i, m)', ~(i > Len(Stream))
      PROVE  Ahead(i, m)
  <2>1. i \in 1 .. Len(Stream) /\ Stream'[i] = <<m[1], m[2], 1>>
    BY <1>3, <1>4, <1>7 DEF Ahead
  <2> QED
    BY <1>3, <1>4, <2>1 DEF Ahead
<1>8. \A i \in Nat, m \in AllMessages : Ahead(i, m) => i <= Len(Stream)
  BY <1>4 DEF Ahead
<1>9. \A i \in Nat, m \in AllMessages : Handled(i, m)' <=> Handled(i, m)
  BY <1>2 DEF Handled
<1> QED
  BY <1>4, <1>5, <1>6, <1>7, <1>8, <1>9

\* g says where in the stream a unit was that stays in it.
LEMMA ReadAhead ==
    ASSUME TypeOK, HandleRead
    PROVE  \E g \in [Nat -> Nat] :
              /\ \A i, j \in Nat : i < j => g[i] < g[j]
              /\ \A i \in Nat, m \in AllMessages : Ahead(i, m)' => i >= 1 /\ Ahead(g[i], m)
              /\ \A i \in Nat, m \in AllMessages :
                    Handled(i, m)' => \/ Handled(i, m)
                                      \/ /\ i = Len(got) + 1 /\ Ahead(1, m)
                                         /\ \A j \in Nat : j >= 1 => g[j] > 1
              /\ \A i \in Nat, m \in AllMessages : Handled(i, m) => i <= Len(got)
              /\ Len(got) \in Nat
<1>1. /\ Stream \in Seq(Units) /\ Stream' \in Seq(Units)
      /\ \A i \in 1 .. Len(line) : Stream[i] = line[i]
      /\ Len(line) \in Nat /\ Len(line) < Len(Stream)
      /\ Head(wire) # Term => Stream' = Stream
  BY ReadStream
<1>2. got \in Seq(AllMessages) /\ Len(got) \in Nat /\ DOMAIN got = 1 .. Len(got)
  BY DEF TypeOK
<1>3. /\ Len(Stream) \in Nat /\ DOMAIN Stream = 1 .. Len(Stream)
      /\ Len(Stream') \in Nat /\ DOMAIN Stream' = 1 .. Len(Stream')
  BY <1>1
<1>4. \A i \in Nat, m \in AllMessages : Handled(i, m) => i <= Len(got)
  BY <1>2 DEF Handled
<1>5. CASE Head(wire) # Term
  <2> DEFINE g == [i \in Nat |-> i]
  <2>1. Stream' = Stream /\ got' = got
    BY <1>1, <1>5, Reads
  <2>2. g \in [Nat -> Nat] /\ \A i \in Nat : g[i] = i
    OBVIOUS
  <2>3. \A i \in Nat, m \in AllMessages : Ahead(i, m)' => i >= 1 /\ Ahead(i, m)
    BY <1>3, <2>1 DEF Ahead
  <2>4. \A i \in Nat, m \in AllMessages : Handled(i, m)' => Handled(i, m)
    BY <2>1 DEF Handled
  <2> HIDE DEF g
  <2> QED
    BY <1>2, <1>4, <2>2, <2>3, <2>4
<1>6. CASE Head(wire) = Term
  <2>1. PICK n \in 0 .. Len(line) :
           /\ line' = SubSeq(line, n + 1, Len(line))
           /\ got' = got \/ (n >= 1 /\ \E x \in AllMessages : SubSeq(line, 1, n) = Line(x) /\ got' = Append(got, x))
    <3>1. SubSeq(line, Len(line) + 1, Len(line)) = <<>>
      BY <1>1, SubSeqEmpty
    <3>2. CASE line' = <<>> /\ got' = got
      BY <1>1, <3>1, <3>2
    <3>3. CASE \E n \in 1 .. Len(line), x \in AllMessages :
                  /\ SubSeq(line, 1, n) = Line(x)
                  /\ got' = Append(got, x) /\ line' = SubSeq(line, n + 1, Len(line))
      <4>1. PICK n \in 1 .. Len(line) : \E x \in AllMessages :
                  /\ SubSeq(line, 1, n) = Line(x)
                  /\ got' = Append(got, x) /\ line' = SubSeq(line, n + 1, Len(line))
        BY <3>3
      <4>2. n \in 0 .. Len(line) /\ n >= 1
        BY <1>1
      <4> QED
        BY <4>1, <4>2
    <3> QED
      BY <1>6, <3>2, <3>3, Reads
  <2>2. /\ Len(Stream') = Len(Stream) - (n + 1)
        /\ \A i \in 1 .. Len(Stream') :
              Stream'[i] = Stream[IF i <= Len(line) - n THEN i + n ELSE i + n + 1]
    BY <1>6, <2>1, TakeStream
  <2> DEFINE g == [i \in Nat |-> IF i <= Len(line) - n THEN i + n ELSE i + n + 1]
  <2>3. /\ g \in [Nat -> Nat]
        /\ \A i \in Nat : g[i] = IF i <= Len(line) - n THEN i + n ELSE i + n + 1
    BY <1>1
  <2> HIDE DEF g
  <2>0. Len(line) - n \in Nat /\ n \in Nat
    BY <1>1
  <2>4. ASSUME NEW i \in Nat, NEW j \in Nat, i < j PROVE g[i] < g[j]
    <3> DEFINE c == Len(line) - n
               x == g[i]
               y == g[j]
    <3>1. x = (IF i <= c THEN i + n ELSE i + n + 1) /\ y = (IF j <= c THEN j + n ELSE j + n + 1)
      BY <2>3
    <3>2. c \in Nat /\ n \in Nat
      BY <2>0
    <3> HIDE DEF c, x, y
    <3>3. x < y
      BY <2>4, <3>1, <3>2
    <3> QED
      BY <3>3 DEF x, y
  <2>5. ASSUME NEW i \in Nat, NEW m \in AllMessages, Ahead(i, m)' PROVE i >= 1 /\ Ahead(g[i], m)
    <3>1. i \in 1 .. Len(Stream') /\ Stream'[i] = <<m[1], m[2], 1>>
      BY <1>3, <2>5 DEF Ahead
    <3>2. g[i] \in 1 .. Len(Stream)
      <4> DEFINE y == Len(Stream)
                 y1 == Len(Stream')
      <4>1. y \in Nat /\ y1 = y - (n + 1) /\ i \in 1 .. y1
        BY <1>3, <2>2, <3>1
      <4>2. g[i] = i + n \/ g[i] = i + n + 1
        BY <2>3
      <4> HIDE DEF y, y1
      <4>3. g[i] \in 1 .. y
        BY <2>0, <4>1, <4>2
      <4> QED
        BY <4>3 DEF y
    <3>3. Stream[g[i]] = <<m[1], m[2], 1>>
      BY <2>2, <2>3, <3>1
    <3> QED
      BY <1>3, <3>1, <3>2, <3>3 DEF Ahead
  <2>6. ASSUME NEW i \in Nat, NEW m \in AllMessages, Handled(i, m)', ~Handled(i, m)
        PROVE  i = Len(got) + 1 /\ Ahead(1, m) /\ \A j \in Nat : j >= 1 => g[j] > 1
    <3>1. got' # got
      BY <2>6 DEF Handled
    <3>2. PICK x \in AllMessages : SubSeq(line, 1, n) = Line(x) /\ got' = Append(got, x) /\ n >= 1
      BY <2>1, <3>1
    <3>3. i = Len(got) + 1 /\ m = x
      <4>1. /\ DOMAIN Append(got, x) = 1 .. Len(got) + 1 /\ Append(got, x)[Len(got) + 1] = x
            /\ \A k \in 1 .. Len(got) : Append(got, x)[k] = got[k]
        BY <1>2, AppendProperties
      <4> QED
        BY <1>2, <2>6, <3>2, <4>1 DEF Handled
    <3>4. line[1] = <<m[1], m[2], 1>>
      <4>1. BodySize(x[1], x[2]) \in Nat /\ 1 <= BodySize(x[1], x[2])
        BY BackendChannelAssumption
      <4>2. Line(x)[1] = <<x[1], x[2], 1>>
        BY <4>1 DEF Line
      <4>3. SubSeq(line, 1, n)[1] = line[1]
        BY <1>1, <3>2 DEF TypeOK
      <4> QED
        BY <3>2, <3>3, <4>2, <4>3
    <3>5. Stream[1] = line[1] /\ 1 \in 1 .. Len(Stream)
      BY <1>1, <1>3, <3>2
    <3>6. Ahead(1, m)
      BY <1>3, <3>4, <3>5 DEF Ahead
    <3>7. ASSUME NEW j \in Nat, j >= 1 PROVE g[j] > 1
      <4>1. g[j] = j + n \/ g[j] = j + n + 1
        BY <2>3
      <4> QED
        BY <2>0, <3>2, <3>7, <4>1
    <3> QED
      BY <3>3, <3>6, <3>7
  <2> QED
    BY <1>2, <1>4, <2>3, <2>4, <2>5, <2>6
<1> QED
  BY <1>5, <1>6

LEMMA FollowsStep ==
    TypeOK /\ Holding /\ Follows /\ Once' /\ [Next]_vars => Follows'
<1> SUFFICES ASSUME TypeOK, Holding, Follows, Once', [Next]_vars
             PROVE  Follows'
  OBVIOUS
<1>a. /\ \A i \in Nat, m \in AllMessages : Handled(i, m) \/ Ahead(i, m) => \E k \in Nat : Wrote(k, m)
      /\ \A k, l \in Nat, m, q \in AllMessages : Wrote(k, m) /\ Wrote(l, q) =>
            \A i, j \in Nat :
               /\ Handled(i, m) /\ Handled(j, q) /\ i < j => k < l
               /\ Handled(i, m) /\ Ahead(j, q) => k < l
               /\ Ahead(i, m) /\ Ahead(j, q) /\ i < j => k < l
  BY DEF Follows
<1>b. /\ \A k, m : Wrote(k, m) => k \in Nat /\ k <= Len(written)
      /\ Len(written) \in Nat
  BY Names
<1>1. ASSUME NEW t \in Senders, Send(t) PROVE Follows'
  <2>1. /\ \A i \in Nat, m \in AllMessages :
              Ahead(i, m)' => \/ Ahead(i, m)
                              \/ i = Len(Stream) + 1 /\ \A k \in Nat : k = Len(written) + 1 => Wrote(k, m)'
        /\ \A i \in Nat, m \in AllMessages : Ahead(i, m) => i <= Len(Stream)
        /\ \A i \in Nat, m \in AllMessages : Handled(i, m)' <=> Handled(i, m)
        /\ Len(Stream) \in Nat
    BY <1>1, SendAhead
  <2>2. \A k \in Nat, m \in AllMessages : Wrote(k, m) => Wrote(k, m)'
    BY <1>1, SendMoves
  <2>3. \A k, l \in Nat, m \in AllMessages : Wrote(k, m)' /\ Wrote(l, m)' => k = l
    BY DEF Once, OnceWritten
  <2>4. \A i \in Nat, m \in AllMessages : Handled(i, m)' \/ Ahead(i, m)' => \E k \in Nat : Wrote(k, m)'
    <3>1. Len(written) + 1 \in Nat
      BY <1>b
    <3> QED
      BY <1>a, <2>1, <2>2, <3>1
  <2>5. ASSUME NEW k \in Nat, NEW l \in Nat, NEW m \in AllMessages, NEW q \in AllMessages,
               Wrote(k, m)', Wrote(l, q)', NEW i \in Nat, NEW j \in Nat,
               (Handled(i, m)' /\ Handled(j, q)' /\ i < j) \/ (Handled(i, m)' /\ Ahead(j, q)')
               \/ (Ahead(i, m)' /\ Ahead(j, q)' /\ i < j)
        PROVE  k < l
    <3>1. Handled(i, m) \/ Ahead(i, m)
      <4>1. CASE Handled(i, m)'
        BY <2>1, <4>1
      <4>2. CASE Ahead(i, m)' /\ Ahead(j, q)' /\ i < j
        <5>1. j <= Len(Stream) + 1
          BY <2>1, <4>2
        <5> QED
          BY <2>1, <4>2, <5>1
      <4> QED
        BY <2>5, <4>1, <4>2
    <3>2. Wrote(k, m)
      BY <1>a, <2>2, <2>3, <2>5, <3>1
    <3>3. CASE Handled(j, q) \/ Ahead(j, q)
      <4>1. Wrote(l, q)
        BY <1>a, <2>2, <2>3, <2>5, <3>3
      <4>2. (Handled(i, m) /\ Handled(j, q) /\ i < j) \/ (Handled(i, m) /\ Ahead(j, q))
            \/ (Ahead(i, m) /\ Ahead(j, q) /\ i < j) \/ (Ahead(j, q)' /\ ~Ahead(j, q))
        <5>1. CASE Handled(i, m)' /\ Handled(j, q)' /\ i < j
          BY <2>1, <5>1
        <5>2. CASE Handled(i, m)' /\ Ahead(j, q)'
          BY <2>1, <5>2
        <5>3. CASE Ahead(i, m)' /\ Ahead(j, q)' /\ i < j
          BY <2>1, <5>3
        <5> QED
          BY <2>5, <5>1, <5>2, <5>3
      <4>3. CASE Ahead(j, q)' /\ ~Ahead(j, q)
        <5>1. PICK n \in Nat : n = Len(written) + 1
          BY <1>b
        <5>2. Wrote(n, q)'
          BY <2>1, <4>3, <5>1
        <5>3. l = n
          BY <2>3, <2>5, <5>2
        <5> QED
          BY <1>b, <3>2, <5>1, <5>3
      <4> QED
        BY <1>a, <3>2, <4>1, <4>2, <4>3
    <3>4. CASE ~(Handled(j, q) \/ Ahead(j, q))
      <4>1. Ahead(j, q)' /\ ~Ahead(j, q)
        BY <2>1, <2>5, <3>4
      <4>2. PICK n \in Nat : n = Len(written) + 1
        BY <1>b
      <4>3. Wrote(n, q)'
        BY <2>1, <4>1, <4>2
      <4>4. l = n
        BY <2>3, <2>5, <4>3
      <4> QED
        BY <1>b, <3>2, <4>2, <4>4
    <3> QED
      BY <3>3, <3>4
  <2> QED
    BY <2>4, <2>5 DEF Follows
<1>2. CASE HandleRead
  <2>1. PICK g \in [Nat -> Nat] :
              /\ \A i, j \in Nat : i < j => g[i] < g[j]
              /\ \A i \in Nat, m \in AllMessages : Ahead(i, m)' => i >= 1 /\ Ahead(g[i], m)
              /\ \A i \in Nat, m \in AllMessages :
                    Handled(i, m)' => \/ Handled(i, m)
                                      \/ /\ i = Len(got) + 1 /\ Ahead(1, m)
                                         /\ \A j \in Nat : j >= 1 => g[j] > 1
              /\ \A i \in Nat, m \in AllMessages : Handled(i, m) => i <= Len(got)
              /\ Len(got) \in Nat
    BY <1>2, ReadAhead
  <2>2. \A k, m : Wrote(k, m)' <=> Wrote(k, m)
    BY <1>2 DEF HandleRead, Wrote
  <2>3. 1 \in Nat /\ \A i, j \in Nat : g[i] \in Nat /\ (i < j => g[i] < g[j]) /\ (g[i] > 1 => 1 < g[i])
    BY <2>1
  <2>4. \A i \in Nat, m \in AllMessages : Handled(i, m)' \/ Ahead(i, m)' => \E k \in Nat : Wrote(k, m)'
    BY <1>a, <2>1, <2>2, <2>3
  <2>5. ASSUME NEW k \in Nat, NEW l \in Nat, NEW m \in AllMessages, NEW q \in AllMessages,
               Wrote(k, m), Wrote(l, q), NEW i \in Nat, NEW j \in Nat
        PROVE  /\ Handled(i, m)' /\ Handled(j, q)' /\ i < j => k < l
               /\ Handled(i, m)' /\ Ahead(j, q)' => k < l
               /\ Ahead(i, m)' /\ Ahead(j, q)' /\ i < j => k < l
    <3>0. \A a, b \in Nat :
             /\ Handled(a, m) /\ Handled(b, q) /\ a < b => k < l
             /\ Handled(a, m) /\ Ahead(b, q) => k < l
             /\ Ahead(a, m) /\ Ahead(b, q) /\ a < b => k < l
      BY <1>a, <2>5
    <3>1. ASSUME Handled(i, m)', Handled(j, q)', i < j PROVE k < l
      <4>1. Handled(i, m)
        <5>1. Handled(j, q) => j <= Len(got)
          BY <2>1
        <5>2. Handled(j, q) \/ j = Len(got) + 1
          BY <2>1, <3>1
        <5> DEFINE y == Len(got)
        <5>a. y \in Nat
          BY <2>1
        <5> HIDE DEF y
        <5>b. j <= y \/ j = y + 1
          BY <5>1, <5>2 DEF y
        <5>c. i < y + 1
          BY <3>1, <5>a, <5>b
        <5>3. i < Len(got) + 1
          BY <5>c DEF y
        <5> QED
          BY <2>1, <3>1, <5>3
      <4>2. Handled(j, q) \/ Ahead(1, q)
        BY <2>1, <3>1
      <4> QED
        BY <3>0, <3>1, <4>1, <4>2
    <3>2. ASSUME Handled(i, m)', Ahead(j, q)' PROVE k < l
      <4>1. Ahead(g[j], q) /\ g[j] \in Nat /\ j >= 1
        BY <2>1, <2>3, <3>2
      <4>2. Handled(i, m) \/ (Ahead(1, m) /\ 1 < g[j])
        BY <2>1, <2>3, <3>2, <4>1
      <4> QED
        BY <3>0, <4>1, <4>2
    <3>3. ASSUME Ahead(i, m)', Ahead(j, q)', i < j PROVE k < l
      <4>1. Ahead(g[i], m) /\ Ahead(g[j], q) /\ g[i] < g[j]
        BY <2>1, <3>3
      <4> QED
        BY <2>3, <3>0, <4>1
    <3> QED
      BY <3>1, <3>2, <3>3
  <2> QED
    BY <2>2, <2>4, <2>5 DEF Follows
<1>3. CASE UNCHANGED <<line, wire, got, written>>
  <2>1. /\ \A k, m : Wrote(k, m)' <=> Wrote(k, m)
        /\ \A i, m : Handled(i, m)' <=> Handled(i, m)
        /\ \A i, m : Ahead(i, m)' <=> Ahead(i, m)
    BY <1>3 DEF Wrote, Handled, Ahead, Stream
  <2> QED
    BY <1>a, <2>1 DEF Follows
<1>4. CASE HandleWrite \/ UNCHANGED vars \/ (\E t \in Pushers : Push(t)) \/ (\E c \in Children : Fork(c))
           \/ \E t \in Senders : Check(t) \/ PopLeft(t) \/ PopEmpty(t) \/ Return(t)
  BY <1>3, <1>4 DEF HandleWrite, vars, Push, Fork, Check, PopLeft, PopEmpty, Return
<1> QED
  BY <1>1, <1>2, <1>4 DEF Next
-----------------------------------------------------------------------------
(* The stream while the socket takes blocks whole *)

\* A block that is sent whole is the last message of the stream.
LEMMA EndsSend ==
    ASSUME TypeOK, Intact, NEW t \in Senders, Send(t), ~short', NEW e, Ends(e), \A k \in Nat : e[k] \in Nat
    PROVE  \E f \in [Nat -> Nat] : Ends(f)'
<1> DEFINE n == Len(got)
           w == Len(written)
           m == Name(hand[t])
           z == Size(m)
           S == Len(Stream)
<1>1. PICK y : Sends(t, y)
  BY SendEffect
<1>2. y = Len(hand[t]) /\ ~short /\ hand[t] # <<>> /\ y > 0
  BY <1>1, WholeSend
<1>3. m \in AllMessages /\ hand[t] = Serialized(m) /\ written' = Append(written, m)
  BY <1>1, <1>2 DEF Intact, Sends
<1>4. /\ z \in Nat /\ y = z /\ 2 <= z
  BY <1>2, <1>3, Serials
<1>5. /\ Stream \in Seq(Units) /\ Len(Stream') = S + z
      /\ \A i \in 1 .. S : Stream'[i] = Stream[i]
      /\ \A j \in 1 .. z : Stream'[S + j] = Serialized(m)[j]
  <2>1. line' = line
    BY DEF Send
  <2> QED
    BY <1>1, <1>3, <1>4, <2>1, SendStream
<1>6. S \in Nat
  BY <1>5
<1>7. written \in Seq(AllMessages) /\ w \in Nat /\ n \in Nat
  BY DEF TypeOK
<1>8. got' = got /\ Len(written') = w + 1 /\ written'[w + 1] = m /\ \A k \in 1 .. w : written'[k] = written[k]
  BY <1>3, <1>7, AppendProperties DEF Send
<1>9. /\ n <= w /\ \A k \in 1 .. n : got[k] = written[k]
      /\ e[n] = 0 /\ e[w] = S
      /\ \A k \in n + 1 .. w :
            /\ e[k] = e[k - 1] + Size(written[k])
            /\ \A j \in 1 .. Size(written[k]) : Stream[e[k - 1] + j] = Serialized(written[k])[j]
      /\ \A k, l \in n .. w : k <= l => e[k] <= e[l]
  BY DEF Ends
<1>10. \A k \in n + 1 .. w : Size(written[k]) \in Nat
  <2>1. \A k \in 1 .. w : written[k] \in AllMessages
    BY <1>7
  <2> QED
    BY <1>7, <2>1, Serials
<1>11. \A k \in Nat : e[k] \in Nat
  OBVIOUS
<1> HIDE DEF n, w, m, z, S
<1>f. PICK f : f \in [Nat -> Nat] /\ \A k \in Nat : f[k] = IF k <= w THEN e[k] ELSE S + z
  <2> DEFINE g == [k \in Nat |-> IF k <= w THEN e[k] ELSE S + z]
  <2>1. g \in [Nat -> Nat] /\ \A k \in Nat : g[k] = IF k <= w THEN e[k] ELSE S + z
    BY <1>4, <1>6, <1>11
  <2> HIDE DEF g
  <2> QED
    BY <2>1
<1>12. \A k \in Nat : f[k] = IF k <= w THEN e[k] ELSE S + z
  BY <1>f
<1>13. n <= w + 1 /\ \A k \in 1 .. n : got'[k] = written'[k]
  BY <1>7, <1>8, <1>9
<1>14. f[n] = 0 /\ f[w + 1] = Len(Stream')
  BY <1>5, <1>7, <1>9, <1>12
<1>15. ASSUME NEW k \in n + 1 .. w + 1
       PROVE  /\ f[k] = f[k - 1] + Size(written'[k])
              /\ \A j \in 1 .. Size(written'[k]) : Stream'[f[k - 1] + j] = Serialized(written'[k])[j]
  <2>1. CASE k <= w
    <3>1. k \in n + 1 .. w /\ k - 1 \in n .. w /\ k \in n .. w /\ k \in 1 .. w /\ w \in n .. w /\ k \in Nat /\ k - 1 \in Nat
      BY <1>7, <2>1
    <3>2. f[k] = e[k] /\ f[k - 1] = e[k - 1] /\ written'[k] = written[k] /\ Size(written[k]) \in Nat
      BY <1>7, <1>8, <1>10, <1>12, <3>1
    <3>3. e[k] = e[k - 1] + Size(written[k]) /\ e[k] <= S /\ e[k - 1] \in Nat
      BY <1>9, <1>11, <3>1
    <3>4. ASSUME NEW j \in 1 .. Size(written[k]) PROVE Stream'[e[k - 1] + j] = Serialized(written[k])[j]
      <4>1. e[k - 1] + j \in 1 .. S
        BY <1>6, <3>2, <3>3
      <4>2. Stream'[e[k - 1] + j] = Stream[e[k - 1] + j]
        BY <1>5, <4>1
      <4> QED
        BY <1>9, <3>1, <4>2
    <3> QED
      BY <3>2, <3>3, <3>4
  <2>2. CASE k = w + 1
    <3>1. k - 1 = w /\ ~(k <= w) /\ k \in Nat
      BY <1>7, <2>2
    <3>2. f[k] = S + z /\ f[k - 1] = S /\ written'[k] = m
      BY <1>7, <1>8, <1>9, <1>12, <2>2, <3>1
    <3> QED
      BY <1>5, <3>2 DEF z
  <2> QED
    BY <1>7, <2>1, <2>2
<1>16. ASSUME NEW k \in n .. w + 1, NEW l \in n .. w + 1, k <= l PROVE f[k] <= f[l]
  <2>0. k \in Nat /\ l \in Nat /\ w \in n .. w
    BY <1>7, <1>9
  <2>1. CASE l <= w
    <3>1. f[k] = e[k] /\ f[l] = e[l] /\ k \in n .. w /\ l \in n .. w
      BY <1>7, <1>12, <1>16, <2>0, <2>1
    <3> QED
      BY <1>9, <1>16, <3>1
  <2>2. CASE ~(l <= w)
    <3>1. f[l] = S + z
      BY <1>12, <2>0, <2>2
    <3>2. CASE k <= w
      <4>1. f[k] = e[k] /\ k \in n .. w
        BY <1>7, <1>12, <2>0, <3>2
      <4>2. e[k] <= S /\ e[k] \in Nat
        BY <1>9, <1>11, <2>0, <3>2, <4>1
      <4> QED
        BY <1>4, <1>6, <3>1, <4>1, <4>2
    <3>3. CASE ~(k <= w)
      BY <1>4, <1>6, <1>12, <2>0, <3>1, <3>3
    <3> QED
      BY <3>2, <3>3
  <2> QED
    BY <2>1, <2>2
<1>17. Ends(f)'
  <2>1. Len(got') = n /\ Len(written') = w + 1
    BY <1>8 DEF n
  <2> QED
    BY <1>13, <1>14, <1>15, <1>16, <2>1 DEF Ends
<1> QED
  BY <1>f, <1>17

\* The line before a terminator is the first message not handled yet.
LEMMA LineParses ==
    ASSUME TypeOK, HandleRead, Head(wire) = Term, \A i \in DOMAIN line : line[i] # Term,
           NEW e, Ends(e), \A k \in Nat : e[k] \in Nat
    PROVE  /\ Len(got) < Len(written) /\ line # <<>> /\ ~raised'
           /\ e[Len(got) + 1] = Len(line) + 1
           /\ got' = Append(got, written[Len(got) + 1]) /\ line' = <<>>
<1> DEFINE n == Len(got)
           w == Len(written)
           l == Len(line)
           M == written[n + 1]
           z == Size(M)
<1>1. /\ \A i \in 1 .. l : Stream[i] = line[i]
      /\ Stream[l + 1] = Term /\ l \in Nat /\ l < Len(Stream) /\ Len(Stream) \in Nat
  <2>1. Stream \in Seq(Units)
    BY ReadStream
  <2> QED
    BY <2>1, ReadStream
<1>2. n \in Nat /\ w \in Nat /\ written \in Seq(AllMessages) /\ line \in Seq(Units) /\ DOMAIN line = 1 .. l
  BY DEF TypeOK
<1>3. /\ n <= w /\ e[n] = 0 /\ e[w] = Len(Stream)
      /\ \A k \in n + 1 .. w :
            /\ e[k] = e[k - 1] + Size(written[k])
            /\ \A j \in 1 .. Size(written[k]) : Stream[e[k - 1] + j] = Serialized(written[k])[j]
  BY DEF Ends
<1> HIDE DEF n, w, l
<1>4. n < w
  BY <1>1, <1>2, <1>3
<1>5. M \in AllMessages
  <2>1. n + 1 \in 1 .. Len(written)
    BY <1>2, <1>4 DEF w
  <2> QED
    BY <1>2, <2>1
<1>6. z \in Nat /\ 2 <= z /\ Len(Serialized(M)) = z /\ Serialized(M)[z] = Term
      /\ \A i \in 1 .. z - 1 : Serialized(M)[i] = <<M[1], M[2], i>>
  BY <1>5, Serials
<1>7. e[n + 1] = z /\ \A j \in 1 .. z : Stream[j] = Serialized(M)[j]
  <2>1. n + 1 \in n + 1 .. w /\ (n + 1) - 1 = n
    BY <1>2, <1>4
  <2>2. e[n + 1] = e[n] + z /\ \A j \in 1 .. z : Stream[e[n] + j] = Serialized(M)[j]
    BY <1>3, <2>1
  <2> HIDE DEF M, z
  <2> QED
    BY <1>3, <1>6, <2>2
<1>8. l + 1 = z
  <2>1. l < z
    <3>1. SUFFICES ASSUME z <= l PROVE FALSE
      BY <1>1, <1>6
    <3>2. z \in 1 .. l /\ z \in 1 .. z
      BY <1>1, <1>6, <3>1
    <3>3. line[z] = Term
      BY <1>1, <1>6, <1>7, <3>2
    <3> QED
      BY <1>2, <3>2, <3>3
  <2>2. l + 1 \in 1 .. z
    BY <1>1, <1>6, <2>1
  <2>3. Serialized(M)[l + 1] = Term
    BY <1>1, <1>7, <2>2
  <2> QED
    BY <1>5, <2>2, <2>3, SerialUnits
<1>9. line = Line(M)
  <2>1. z = BodySize(M[1], M[2]) + 1 /\ BodySize(M[1], M[2]) \in Nat
    BY <1>5, BackendChannelAssumption DEF Size
  <2>2. l = BodySize(M[1], M[2])
    BY <1>1, <1>8, <2>1
  <2>3. Line(M) = [i \in 1 .. l |-> <<M[1], M[2], i>>]
    BY <2>2 DEF Line
  <2>4. ASSUME NEW i \in 1 .. l PROVE line[i] = <<M[1], M[2], i>>
    <3>1. i \in 1 .. z /\ i \in 1 .. z - 1
      BY <1>1, <1>6, <1>8
    <3>2. line[i] = Stream[i] /\ Stream[i] = Serialized(M)[i] /\ Serialized(M)[i] = <<M[1], M[2], i>>
      BY <1>1, <1>6, <1>7, <3>1
    <3> QED
      BY <3>2
  <2>5. line = [i \in 1 .. l |-> line[i]]
    BY <1>2
  <2> QED
    BY <2>3, <2>4, <2>5
<1>10. line # <<>>
  BY <1>1, <1>6, <1>8 DEF l
<1>11. ASSUME NEW k \in 1 .. l, NEW x \in AllMessages, SubSeq(line, 1, k) = Line(x)
       PROVE  x = M /\ k = l
  <2> DEFINE u == SubSeq(line, 1, k)
  <2>1. u \in Seq(Units) /\ Len(u) = k /\ u[1] = line[1] /\ k \in Nat /\ k >= 1
    BY <1>1, <1>2
  <2>2. \A y \in AllMessages : /\ Line(y)[1] = <<y[1], y[2], 1>> /\ y = <<y[1], y[2]>>
                               /\ Len(Line(y)) = BodySize(y[1], y[2])
    <3> TAKE y \in AllMessages
    <3> DEFINE z1 == BodySize(y[1], y[2])
    <3>1. z1 \in Nat /\ 1 <= z1
      BY BackendChannelAssumption
    <3>2. 1 \in 1 .. z1 /\ Line(y) = [i \in 1 .. z1 |-> <<y[1], y[2], i>>]
      BY <3>1 DEF Line
    <3> HIDE DEF z1
    <3> QED
      BY <3>1, <3>2, Serials DEF z1
  <2> HIDE DEF M, u
  <2>3. x[1] = M[1] /\ x[2] = M[2]
    <3>1. <<x[1], x[2], 1>> = <<M[1], M[2], 1>>
      BY <1>5, <1>9, <1>11, <2>1, <2>2 DEF u
    <3> QED
      BY <3>1
  <2>4. x = M
    BY <1>5, <2>2, <2>3
  <2>5. k = Len(line)
    BY <1>5, <1>9, <1>11, <2>1, <2>2, <2>4 DEF u
  <2> QED
    BY <2>4, <2>5 DEF l
<1>12. Parses(line)
  BY <1>5, <1>9 DEF Parses
<1>13. got' = Append(got, M) /\ line' = <<>> /\ ~raised'
  <2>1. PICK k \in 1 .. Len(line), x \in AllMessages :
           /\ SubSeq(line, 1, k) = Line(x)
           /\ got' = Append(got, x) /\ line' = SubSeq(line, k + 1, Len(line)) /\ raised' = raised
    BY <1>10, <1>12, Reads
  <2>2. x = M /\ k = Len(line)
    BY <1>11, <2>1 DEF l
  <2>3. SubSeq(line, Len(line) + 1, Len(line)) = <<>>
    BY <1>2, SubSeqEmpty DEF l
  <2> QED
    BY <2>1, <2>2, <2>3, Reads
<1> QED
  BY <1>4, <1>7, <1>8, <1>10, <1>13 DEF n, w, l

\* Once it is handled, the stream is what comes after it.
LEMMA EndsRead ==
    ASSUME TypeOK, HandleRead, Head(wire) = Term, \A i \in DOMAIN line : line[i] # Term,
           NEW e, Ends(e), \A k \in Nat : e[k] \in Nat
    PROVE  \E f \in [Nat -> Nat] : Ends(f)'
<1> DEFINE n == Len(got)
           w == Len(written)
           z == Len(line) + 1
           S == Len(Stream)
<1>1. n < w /\ e[n + 1] = z /\ got' = Append(got, written[n + 1])
  BY LineParses
<1>2. /\ Stream \in Seq(Units) /\ z \in Nat
      /\ Len(Stream') = S - z /\ Len(Stream') \in Nat
      /\ \A i \in 1 .. Len(Stream') : Stream'[i] = Stream[i + z]
  <2>1. Stream \in Seq(Units) /\ Stream' \in Seq(Units) /\ Len(line) \in Nat
    BY ReadStream
  <2>2. line' = <<>> /\ SubSeq(line, Len(line) + 1, Len(line)) = <<>>
    BY <2>1, LineParses, SubSeqEmpty
  <2>3. Len(line) \in 0 .. Len(line)
    BY <2>1
  <2>4. /\ Len(Stream') = S - (Len(line) + 1)
        /\ \A i \in 1 .. Len(Stream') :
              Stream'[i] = Stream[IF i <= Len(line) - Len(line) THEN i + Len(line) ELSE i + Len(line) + 1]
    BY <2>2, <2>3, TakeStream
  <2>5. \A i \in 1 .. Len(Stream') : ~(i <= Len(line) - Len(line)) /\ i + Len(line) + 1 = i + z
    BY <2>1
  <2>6. Stream \in Seq(Units) /\ z \in Nat /\ Len(Stream') = S - z /\ Len(Stream') \in Nat
    BY <2>1, <2>4
  <2>7. ASSUME NEW i \in 1 .. Len(Stream') PROVE Stream'[i] = Stream[i + z]
    <3>1. Stream'[i] = Stream[IF i <= Len(line) - Len(line) THEN i + Len(line) ELSE i + Len(line) + 1]
      BY <2>4
    <3> QED
      BY <2>5, <3>1
  <2> QED
    BY <2>6, <2>7
<1>3. S \in Nat
  BY <1>2
<1>4. n \in Nat /\ w \in Nat /\ got \in Seq(AllMessages) /\ written' = written
  BY DEF TypeOK, HandleRead
<1>5. Len(got') = n + 1 /\ got'[n + 1] = written[n + 1] /\ \A k \in 1 .. n : got'[k] = got[k]
  <2>1. written[n + 1] \in AllMessages
    <3>1. n + 1 \in 1 .. w
      BY <1>1, <1>4
    <3> QED
      BY <3>1 DEF TypeOK
  <2> QED
    BY <1>1, <1>4, <2>1, AppendProperties
<1>6. /\ \A k \in 1 .. n : got[k] = written[k]
      /\ e[w] = S
      /\ \A k \in n + 1 .. w :
            /\ e[k] = e[k - 1] + Size(written[k])
            /\ \A j \in 1 .. Size(written[k]) : Stream[e[k - 1] + j] = Serialized(written[k])[j]
      /\ \A k, l \in n .. w : k <= l => e[k] <= e[l]
  BY DEF Ends
<1>7. \A k \in n + 1 .. w : Size(written[k]) \in Nat
  <2>1. \A k \in 1 .. w : written[k] \in AllMessages
    BY DEF TypeOK
  <2> QED
    BY <1>4, <2>1, Serials
<1>8. \A k \in Nat : e[k] \in Nat
  OBVIOUS
<1> HIDE DEF n, w, z, S
<1>9. \A k \in n + 1 .. w : z <= e[k] /\ e[k] <= S
  <2> TAKE k \in n + 1 .. w
  <2>1. n + 1 \in n .. w /\ k \in n .. w /\ w \in n .. w /\ n + 1 <= k /\ k <= w
    BY <1>1, <1>4
  <2> QED
    BY <1>1, <1>6, <2>1
<1>f. PICK f : f \in [Nat -> Nat] /\ \A k \in n + 1 .. w : f[k] = e[k] - z
  <2> DEFINE g == [k \in Nat |-> IF k \in n + 1 .. w THEN e[k] - z ELSE 0]
  <2>1. \A k \in n + 1 .. w : e[k] - z \in Nat /\ k \in Nat
    BY <1>2, <1>4, <1>8, <1>9
  <2>2. g \in [Nat -> Nat] /\ \A k \in n + 1 .. w : g[k] = e[k] - z
    BY <2>1
  <2> HIDE DEF g
  <2> QED
    BY <2>2
<1>10. \A k \in n + 1 .. w : f[k] = e[k] - z
  BY <1>f
<1>11. n + 1 <= w /\ \A k \in 1 .. n + 1 : got'[k] = written'[k]
  BY <1>1, <1>4, <1>5, <1>6
<1>12. f[n + 1] = 0 /\ f[w] = Len(Stream')
  <2>1. n + 1 \in n + 1 .. w /\ w \in n + 1 .. w
    BY <1>1, <1>4
  <2>2. f[n + 1] = e[n + 1] - z /\ f[w] = e[w] - z
    BY <1>10, <2>1
  <2> QED
    BY <1>1, <1>2, <1>6, <2>2
<1>13. ASSUME NEW k \in (n + 1) + 1 .. w
       PROVE  /\ f[k] = f[k - 1] + Size(written'[k])
              /\ \A j \in 1 .. Size(written'[k]) : Stream'[f[k - 1] + j] = Serialized(written'[k])[j]
  <2>1. k \in n + 1 .. w /\ k - 1 \in n + 1 .. w /\ k \in Nat /\ k - 1 \in Nat
    BY <1>4
  <2>2. f[k] = e[k] - z /\ f[k - 1] = e[k - 1] - z /\ written'[k] = written[k] /\ Size(written[k]) \in Nat
    BY <1>4, <1>7, <1>10, <2>1
  <2>3. e[k] = e[k - 1] + Size(written[k]) /\ e[k] \in Nat /\ e[k - 1] \in Nat /\ z <= e[k - 1] /\ e[k] <= S
    BY <1>6, <1>8, <1>9, <2>1
  <2>4. ASSUME NEW j \in 1 .. Size(written[k]) PROVE Stream'[f[k - 1] + j] = Serialized(written[k])[j]
    <3> DEFINE x == e[k - 1]
               y == Size(written[k])
    <3>0. x \in Nat /\ y \in Nat /\ z \in Nat /\ S \in Nat /\ z <= x /\ x + y <= S /\ j \in 1 .. y
      BY <1>2, <1>3, <2>2, <2>3
    <3> HIDE DEF x, y
    <3>a. (x - z) + j \in 1 .. S - z /\ ((x - z) + j) + z = x + j
      BY <3>0
    <3>1. f[k - 1] + j \in 1 .. Len(Stream') /\ (f[k - 1] + j) + z = e[k - 1] + j
      BY <1>2, <2>2, <3>a DEF x
    <3>2. Stream'[f[k - 1] + j] = Stream[e[k - 1] + j]
      BY <1>2, <3>1
    <3> QED
      BY <1>6, <2>1, <3>2
  <2>5. f[k] = f[k - 1] + Size(written[k])
    BY <1>2, <2>2, <2>3
  <2> QED
    BY <2>2, <2>4, <2>5
<1>14. ASSUME NEW k \in n + 1 .. w, NEW l \in n + 1 .. w, k <= l PROVE f[k] <= f[l]
  <2>1. k \in n .. w /\ l \in n .. w /\ k \in Nat /\ l \in Nat
    BY <1>4
  <2>2. e[k] <= e[l] /\ e[k] \in Nat /\ e[l] \in Nat
    BY <1>6, <1>8, <1>14, <2>1
  <2> QED
    BY <1>2, <1>10, <2>2
<1>15. Ends(f)'
  <2>1. Len(got') = n + 1 /\ Len(written') = w
    BY <1>4, <1>5 DEF w
  <2> QED
    BY <1>11, <1>12, <1>13, <1>14, <2>1 DEF Ends
<1> QED
  BY <1>f, <1>15

LEMMA WhenceStep ==
    TypeOK /\ Intact /\ Whence /\ [Next]_vars => Whence'
<1> SUFFICES ASSUME TypeOK, Intact, Whence, [Next]_vars, ~short'
             PROVE  ~raised' /\ (\A i \in DOMAIN line' : line'[i] # Term) /\ \E f \in [Nat -> Nat] : Ends(f)'
  BY DEF Whence
<1>1. ASSUME NEW t \in Senders, Send(t)
      PROVE  ~raised' /\ (\A i \in DOMAIN line' : line'[i] # Term) /\ \E f \in [Nat -> Nat] : Ends(f)'
  <2>1. ~short
    <3>1. PICK n : Sends(t, n)
      BY <1>1, SendEffect
    <3> QED
      BY <3>1, WholeSend
  <2>2. UNCHANGED <<line, raised>>
    BY <1>1 DEF Send
  <2>3. ~raised /\ (\A i \in DOMAIN line : line[i] # Term)
    BY <2>1 DEF Whence
  <2>4. PICK e : e \in [Nat -> Nat] /\ Ends(e)
    BY <2>1 DEF Whence
  <2>5. \E f \in [Nat -> Nat] : Ends(f)'
    BY <1>1, <2>4, EndsSend
  <2> QED
    BY <2>2, <2>3, <2>5
<1>2. ASSUME HandleRead
      PROVE  ~raised' /\ (\A i \in DOMAIN line' : line'[i] # Term) /\ \E f \in [Nat -> Nat] : Ends(f)'
  <2>1. ~short
    BY <1>2 DEF HandleRead
  <2>2. ~raised /\ (\A i \in DOMAIN line : line[i] # Term)
    BY <2>1 DEF Whence
  <2>3. PICK e : e \in [Nat -> Nat] /\ Ends(e)
    BY <2>1 DEF Whence
  <2>4. CASE Head(wire) = Term
    <3>1. ~raised' /\ line' = <<>>
      BY <1>2, <2>2, <2>3, <2>4, LineParses
    <3>2. \E f \in [Nat -> Nat] : Ends(f)'
      BY <1>2, <2>2, <2>3, <2>4, EndsRead
    <3> QED
      BY <3>1, <3>2
  <2>5. CASE Head(wire) # Term
    <3>1. line' = Append(line, Head(wire)) /\ got' = got /\ raised' = raised /\ written' = written
      BY <1>2, <2>5, Reads DEF HandleRead
    <3>2. line \in Seq(Units) /\ wire \in Seq(Units) /\ wire # <<>> /\ wire' = Tail(wire) /\ Head(wire) \in Units
      BY <1>2, Reads DEF TypeOK
    <3>3. Stream' = Stream
      BY <3>1, <3>2, Streams DEF Stream
    <3>4. Ends(e)'
      BY <2>3, <3>1, <3>3 DEF Ends
    <3>5. \A i \in DOMAIN line' : line'[i] # Term
      <4>1. /\ DOMAIN Append(line, Head(wire)) = 1 .. Len(line) + 1 /\ Len(line) \in Nat
            /\ DOMAIN line = 1 .. Len(line)
            /\ Append(line, Head(wire))[Len(line) + 1] = Head(wire)
            /\ \A i \in 1 .. Len(line) : Append(line, Head(wire))[i] = line[i]
        BY <3>2, AppendProperties
      <4> QED
        BY <2>2, <2>5, <3>1, <4>1
    <3>6. \E f \in [Nat -> Nat] : Ends(f)'
      BY <2>3, <3>4
    <3> QED
      BY <2>2, <3>1, <3>5, <3>6
  <2> QED
    BY <2>4, <2>5
<1>3. ASSUME UNCHANGED <<line, wire, got, written, raised, short>>
      PROVE  ~raised' /\ (\A i \in DOMAIN line' : line'[i] # Term) /\ \E f \in [Nat -> Nat] : Ends(f)'
  <2>1. ~raised /\ (\A i \in DOMAIN line : line[i] # Term) /\ \E f \in [Nat -> Nat] : Ends(f)
    BY <1>3 DEF Whence
  <2>2. \A f \in [Nat -> Nat] : Ends(f) => Ends(f)'
    BY <1>3 DEF Ends, Stream
  <2> QED
    BY <1>3, <2>1, <2>2
<1>4. CASE HandleWrite \/ UNCHANGED vars \/ (\E t \in Pushers : Push(t)) \/ (\E c \in Children : Fork(c))
           \/ \E t \in Senders : Check(t) \/ PopLeft(t) \/ PopEmpty(t) \/ Return(t)
  <2>1. UNCHANGED <<line, wire, got, written, raised, short>>
    BY <1>4 DEF HandleWrite, vars, Push, Fork, Check, PopLeft, PopEmpty, Return
  <2> QED
    BY <1>3, <2>1
<1> QED
  BY <1>1, <1>2, <1>4 DEF Next
-----------------------------------------------------------------------------
(* The invariant *)

IInv == TypeOK /\ Holding /\ Drained /\ Once /\ InOrder /\ Follows /\ Intact /\ Kept /\ Whence

LEMMA InvInit ==
    Init => IInv
<1> SUFFICES ASSUME Init PROVE IInv
  OBVIOUS
<1> USE Processes
<1>1. TypeOK
  BY TypeInit
<1>2. /\ forked = {} /\ sending = {} /\ checked = {} /\ closed = {} /\ ~raised
      /\ \A p \in Procs : lock[p] = Free /\ fifo[p] = <<>>
      /\ \A t \in Pushers : pushed[t] = 0
      /\ \A t \in Senders : hand[t] = <<>>
      /\ wire = <<>> /\ line = <<>> /\ got = <<>> /\ written = <<>>
  BY DEF Init
<1>3. Stream = <<>> /\ Len(Stream) = 0
  BY <1>2 DEF Stream
<1>4. Holding
  <2>1. \A t \in Pushers : ProcOf(t) \in Procs /\ t # Free
    OBVIOUS
  <2> QED
    BY <1>2, <2>1 DEF Holding
<1>5. /\ \A p \in Procs : \A i, m : ~Queued(p, i, m)
      /\ \A t \in Senders : \A m : ~Held(t, m)
      /\ \A k, m : ~Wrote(k, m) /\ ~Handled(k, m) /\ ~Ahead(k, m)
  BY <1>2, <1>3 DEF Queued, Held, Wrote, Handled, Ahead, Whole
<1>6. Drained /\ Intact
  BY <1>2 DEF Drained, Intact
<1>7. Once /\ InOrder /\ Follows
  BY <1>5 DEF Once, OnceQueued, OnceHeld, OnceWritten, InOrder, Follows
<1>8. Kept
  <2>1. \A m \in AllMessages : m[1] \in Pushers /\ m[2] \in Nat /\ m[2] >= 1
    BY <1>1, Names
  <2>2. \A m \in AllMessages : ~(m[2] <= pushed[m[1]])
    BY <1>2, <2>1
  <2> QED
    BY <2>2 DEF Kept
<1>9. Whence
  <2>1. PICK e : e \in [Nat -> Nat] /\ e[0] = 0
    <3> DEFINE z == [k \in Nat |-> 0]
    <3>1. z \in [Nat -> Nat] /\ z[0] = 0
      OBVIOUS
    <3> HIDE DEF z
    <3> QED
      BY <3>1
  <2>2. e[0] = 0
    BY <2>1
  <2>3. Ends(e)
    <3>1. Len(got) = 0 /\ Len(written) = 0 /\ \A k \in 0 .. 0 : k = 0
      BY <1>2
    <3> QED
      BY <1>3, <2>2, <3>1 DEF Ends
  <2> QED
    BY <1>2, <2>1, <2>3 DEF Whence
<1> QED
  BY <1>1, <1>4, <1>6, <1>7, <1>8, <1>9 DEF IInv

LEMMA InvStep ==
    ASSUME FitsBlock
    PROVE  IInv /\ [Next]_vars => IInv'
<1> SUFFICES ASSUME IInv, [Next]_vars PROVE IInv'
  OBVIOUS
<1>1. TypeOK /\ Holding /\ Drained /\ Once /\ InOrder /\ Follows /\ Intact /\ Kept /\ Whence
  BY DEF IInv
<1>2. TypeOK' /\ Holding' /\ Drained' /\ Once'
  BY <1>1, TypeStep, HoldingStep, DrainedStep, OnceStep
<1>3. InOrder' /\ Follows' /\ Intact' /\ Kept' /\ Whence'
  BY <1>1, <1>2, InOrderStep, FollowsStep, IntactStep, KeptStep, WhenceStep
<1> QED
  BY <1>2, <1>3 DEF IInv

(* The invariant: who is in push holds the lock of its process, each message is
   begun once, those of a forked process in their order, and the other end handles
   them as they were begun (every action of the channel). *)
THEOREM ChannelInvariant ==
    ASSUME FitsBlock
    PROVE  Spec => []IInv
<1>1. Init => IInv
  BY InvInit
<1>2. IInv /\ [Next]_vars => IInv'
  BY InvStep
<1> QED
  BY <1>1, <1>2, PTL DEF Spec

(* The types of queues, blocks, messages and the stream; the socket holds no more than
   its capacity, and every block is the rest of a message (push, initiate_send). *)
THEOREM TypeCorrect ==
    ASSUME FitsBlock
    PROVE  Spec => []TypeOK
<1>1. IInv => TypeOK
  BY DEF IInv
<1> QED
  BY <1>1, ChannelInvariant, PTL

(* Whatever the socket does, the other end handles no message twice, and those of a
   forked process in their order (push, initiate_send, handle_read, the fork). *)
THEOREM OnceInOrderHolds ==
    ASSUME FitsBlock
    PROVE  Spec => []OnceInOrder
<1>1. IInv => OnceInOrder
  <2> SUFFICES ASSUME IInv, NEW i \in DOMAIN got, NEW j \in DOMAIN got, i < j
               PROVE  /\ got[i] # got[j]
                      /\ \A c \in Children : got[i][1] = c /\ got[j][1] = c => got[i][2] < got[j][2]
    <3>0. DOMAIN got = 1 .. Len(got) /\ Len(got) \in Nat
      BY DEF IInv, TypeOK
    <3>1. \A i, j \in DOMAIN got : i # j => i < j \/ j < i
      BY <3>0
    <3> QED
      BY <3>1 DEF OnceInOrder, InTurn
  <2> DEFINE m == got[i]
             q == got[j]
  <2>1. TypeOK /\ Once /\ InOrder /\ Follows
    BY DEF IInv
  <2>2. i \in Nat /\ j \in Nat /\ m \in AllMessages /\ q \in AllMessages
    BY <2>1 DEF TypeOK
  <2>3. Handled(i, m) /\ Handled(j, q)
    BY DEF Handled
  <2> HIDE DEF m, q
  <2>4. PICK k \in Nat : Wrote(k, m)
    BY <2>1, <2>2, <2>3 DEF Follows
  <2>5. PICK l \in Nat : Wrote(l, q)
    BY <2>1, <2>2, <2>3 DEF Follows
  <2>6. k < l
    BY <2>1, <2>2, <2>3, <2>4, <2>5 DEF Follows
  <2>7. m # q
    BY <2>1, <2>2, <2>4, <2>5, <2>6 DEF Once, OnceWritten
  <2>8. \A c \in Children : m[1] = c /\ q[1] = c => m[2] < q[2]
    BY <2>1, <2>2, <2>4, <2>5, <2>6 DEF InOrder
  <2> QED
    BY <2>7, <2>8 DEF m, q
<1> QED
  BY <1>1, ChannelInvariant, PTL

\* When no thread is in initiate_send, no message waits in a queue.
LEMMA QueuesDone ==
    ASSUME IInv, ~short, closed = {}, sending = {}, NEW m \in AllMessages, m[2] <= pushed[m[1]]
    PROVE  \E k \in DOMAIN written : written[k] = m
<1> USE Processes
<1>1. TypeOK /\ Holding /\ Drained /\ Kept
  BY DEF IInv
<1>2. m[1] \in Pushers /\ m[2] \in Nat /\ m[2] >= 1
  BY <1>1, Names
<1>3. \A t \in Senders : hand[t] = <<>>
  BY <1>1 DEF Holding
<1>4. Serialized(m) # <<>> /\ Whole(Serialized(m))
  BY SerialPiece DEF Whole
<1> DEFINE p == ProcOf(m[1])
<1>5. p \in Procs
  BY <1>2
<1>6. lock[p] = Free
  <2>1. CASE m[1] \in Threads
    <3>1. p = Runtime
      BY <2>1
    <3>2. \A t \in Threads : ProcOf(t) = Runtime /\ t \in Pushers
      OBVIOUS
    <3>3. lock[Runtime] \in Threads \union {Free}
      BY <1>1 DEF Holding
    <3> QED
      BY <1>1, <3>1, <3>2, <3>3 DEF Holding
  <2>2. CASE m[1] \in Children
    <3>1. p = m[1] /\ p \in Pushers
      BY <2>2
    <3>2. lock[p] \in Threads \union {p, Free} /\ (lock[p] \in Threads => pushed[p] = 0)
      BY <1>1, <2>2, <3>1 DEF Holding
    <3>3. lock[p] # p
      BY <1>1, <3>1 DEF Holding
    <3>4. pushed[p] # 0
      BY <1>2, <3>1
    <3> QED
      BY <3>2, <3>3, <3>4
  <2> QED
    BY <1>2, <2>1, <2>2
<1>7. \A i \in DOMAIN fifo[p] : ~Whole(fifo[p][i])
  BY <1>1, <1>5, <1>6 DEF Drained
<1> QED
  BY <1>1, <1>3, <1>4, <1>7 DEF Kept

(* If every message fits in a block, then as long as the socket takes blocks whole and the channel stays open, the stream of
   several processes is cut at the right places, and every message is handled
   (initiate_send, push, handle_read and deserialize). *)
THEOREM WholeUnlessShortHolds ==
    ASSUME FitsBlock
    PROVE  Spec => []WholeUnlessShort
<1>1. IInv => WholeUnlessShort
  <2> SUFFICES ASSUME IInv, ~short, closed = {}
               PROVE  /\ ~raised /\ IsPrefix(got, written)
                      /\ sending = {} /\ wire = <<>> =>
                            \A m \in AllMessages : m[2] <= pushed[m[1]] => m \in Range(got)
    BY DEF WholeUnlessShort
  <2>1. TypeOK /\ Whence
    BY DEF IInv
  <2>2. ~raised /\ (\A i \in DOMAIN line : line[i] # Term) /\ \E e \in [Nat -> Nat] : Ends(e)
    BY <2>1 DEF Whence
  <2>3. PICK e : Ends(e)
    BY <2>2
  <2>4. got \in Seq(AllMessages) /\ written \in Seq(AllMessages) /\ line \in Seq(Units) /\ wire \in Seq(Units)
    BY <2>1 DEF TypeOK
  <2> DEFINE n == Len(got)
             w == Len(written)
  <2>5. n \in Nat /\ w \in Nat /\ DOMAIN got = 1 .. n /\ DOMAIN written = 1 .. w
    BY <2>4
  <2>6. /\ n <= w /\ \A k \in 1 .. n : got[k] = written[k]
        /\ e[n] = 0 /\ e[w] = Len(Stream)
        /\ \A k \in n + 1 .. w :
              /\ e[k] = e[k - 1] + Size(written[k])
              /\ \A j \in 1 .. Size(written[k]) : Stream[e[k - 1] + j] = Serialized(written[k])[j]
        /\ \A k, l \in n .. w : k <= l => e[k] <= e[l]
    BY <2>3 DEF Ends
  <2>7. IsPrefix(got, written)
    <3>1. \A k \in 1 .. n : got[k] = SubSeq(written, 1, n)[k]
      BY <2>4, <2>5, <2>6
    <3>2. SubSeq(written, 1, n) \in Seq(AllMessages) /\ Len(SubSeq(written, 1, n)) = n
      BY <2>4, <2>5, <2>6, SubSeqProperties
    <3>3. got = SubSeq(written, 1, n)
      BY <2>4, <3>1, <3>2, SeqEqual
    <3>4. SubSeq(got, 1, n) = got
      BY <2>4, <2>5
    <3> QED
      BY <2>6, <3>3, <3>4 DEF IsPrefix
  <2>8. ASSUME sending = {}, wire = <<>>, NEW m \in AllMessages, m[2] <= pushed[m[1]]
        PROVE  m \in Range(got)
    <3>1. PICK k \in DOMAIN written : written[k] = m
      BY <2>8, QueuesDone
    <3>2. Stream = line /\ Len(line) \in Nat /\ DOMAIN line = 1 .. Len(line)
      BY <2>4, <2>8 DEF Stream
    <3>3. n = w
      <4>0. n <= w /\ n \in Nat /\ w \in Nat
        BY <2>5, <2>6
      <4> SUFFICES ASSUME n < w PROVE FALSE
        <5> HIDE DEF n, w
        <5> QED
          BY <4>0
      <4> DEFINE M == written[n + 1]
                 z == Size(M)
      <4>1. n + 1 \in n + 1 .. w /\ (n + 1) - 1 = n /\ n + 1 \in n .. w /\ w \in n .. w /\ n + 1 \in 1 .. w /\ n + 1 <= w
        BY <2>5
      <4>2. M \in AllMessages
        BY <2>4, <2>5, <4>1
      <4>3. z \in Nat /\ 2 <= z /\ Serialized(M)[z] = Term
        BY <4>2, Serials
      <4>4. /\ e[n + 1] = e[n] + z /\ \A j \in 1 .. z : Stream[e[n] + j] = Serialized(M)[j]
            /\ e[n + 1] <= e[w]
        BY <2>6, <4>1
      <4> HIDE DEF n, w, M, z
      <4>5. z <= Len(line) /\ Stream[z] = Term
        BY <2>6, <3>2, <4>3, <4>4
      <4>6. z \in DOMAIN line /\ line[z] = Term
        BY <3>2, <4>3, <4>5
      <4> QED
        BY <2>2, <4>6
    <3>4. k \in DOMAIN got /\ got[k] = m
      BY <2>5, <2>6, <3>1, <3>3
    <3> QED
      BY <3>4 DEF Range
  <2> QED
    BY <2>2, <2>7, <2>8
<1> QED
  BY <1>1, ChannelInvariant, PTL
=============================================================================
