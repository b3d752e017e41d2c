---------------------------- MODULE BackendChannel ----------------------------
(***************************************************************************)
(* The stream of messages between the runtime and the OpenFlow client:     *)
(* src/backend/backend.py and comm.py over the patched asynchat of         *)
(* src/backend/patch/asynchat.py.  Threads of the runtime push messages    *)
(* under channel_lock; a forked process has a copy of the channel, with a  *)
(* lock and a queue of its own, on the same socket.  The other end cuts    *)
(* the stream into lines and parses them; it runs the same code.           *)
(*                                                                         *)
(* A message is a sequence of units, the last one the terminator.          *)
(***************************************************************************)
EXTENDS Naturals, Sequences, SequencesExt

CONSTANTS
    Threads,        \* of the runtime, that push messages
    Children,       \* forked processes that do; one thread each
    Runtime,        \* the runtime's process
    Writer,         \* the asyncore thread of the runtime, in handle_write
    Messages,       \* number of messages that each thread pushes
    BodySize(_, _), \* units of a thread's i-th message, without the terminator
    Block,          \* ac_out_buffer_size
    Capacity        \* units that the socket holds

Term  == <<"end", 0, 0>>      \* "\n"; the other units are <<thread, number of the message, place>>
Free  == "free"
Procs == {Runtime} \union Children
Pushers == Threads \union Children
Senders == Pushers \union {Writer}
ProcOf(t) == IF t \in Children THEN t ELSE Runtime

Least(a, b) == IF a < b THEN a ELSE b
Line(m) == [i \in 1 .. BodySize(m[1], m[2]) |-> <<m[1], m[2], i>>]
AllMessages == Pushers \X (1 .. Messages)

ASSUME BackendChannelAssumption ==
    /\ Threads \intersect Children = {} /\ Runtime \notin Children
    /\ Writer \notin Pushers /\ Free \notin Pushers
    /\ Messages \in Nat /\ Block \in Nat \ {0} /\ Capacity \in Nat \ {0}
    /\ \A m \in AllMessages : BodySize(m[1], m[2]) \in Nat \ {0}

\* Every message fits in a block with its terminator; push cuts one that does not.
\* push does not cut a message that fits in a block with its terminator.
Fits(m) == BodySize(m[1], m[2]) < Block
FitsBlock == \A m \in AllMessages : Fits(m)

VARIABLES
    forked,     \* the children that exist
    lock,       \* channel_lock of each process
    fifo,       \* producer_fifo of each process: blocks of units
    pushed,     \* number of messages each thread has pushed
    sending,    \* the threads inside initiate_send
    checked,    \* those of them that have found the queue not empty
    hand,       \* the block that each of them has taken from the queue
    closed,     \* the processes whose end of the channel is closed
    wire,       \* the socket
    line,       \* received_data: the units collected and not taken yet
    got,        \* the messages handled by the other end
    raised,     \* the other end has raised IndexError
    short,      \* history: the socket did not take a block whole
    written     \* history: messages in the order they were begun on the wire

vars == <<forked, lock, fifo, pushed, sending, checked, hand, closed, wire, line, got, raised, short, written>>
-----------------------------------------------------------------------------
\* Mutant: a message that just fits is cut.
BlocksShort(units) ==
    [i \in 1 .. (Len(units) + Block - 2) \div (Block - 1) |->
        SubSeq(units, (i - 1) * (Block - 1) + 1, Least(i * (Block - 1), Len(units)))]

\* send_to_OF_client: serialize and push, in blocks, with channel_lock.
Blocks(units) ==
    [i \in 1 .. (Len(units) + Block - 1) \div Block |->
        SubSeq(units, (i - 1) * Block + 1, Least(i * Block, Len(units)))]
Serialized(m) == Append(Line(m), Term)
Push(t) ==
    /\ t \in Threads \union forked /\ t \notin sending
    /\ pushed[t] < Messages /\ lock[ProcOf(t)] = Free
    /\ lock' = [lock EXCEPT ![ProcOf(t)] = t]
    /\ pushed' = [pushed EXCEPT ![t] = @ + 1]
    /\ fifo' = [fifo EXCEPT ![ProcOf(t)] = @ \o Blocks(Serialized(<<t, pushed[t] + 1>>))]
    /\ sending' = sending \union {t}
    /\ UNCHANGED <<forked, checked, hand, closed, wire, line, got, raised, short, written>>

\* The asyncore thread: writable, then handle_write, which takes no lock.
HandleWrite ==
    /\ Writer \notin sending /\ fifo[Runtime] # <<>> /\ Runtime \notin closed
    /\ sending' = sending \union {Writer}
    /\ UNCHANGED <<forked, lock, fifo, pushed, checked, hand, closed, wire, line, got, raised, short, written>>

\* initiate_send: as long as there is something in the queue,
Check(t) ==
    /\ t \in sending \ checked /\ hand[t] = <<>>
    /\ fifo[ProcOf(t)] # <<>> /\ ProcOf(t) \notin closed
    /\ checked' = checked \union {t}
    /\ UNCHANGED <<forked, lock, fifo, pushed, sending, hand, closed, wire, line, got, raised, short, written>>

\* it takes the first block,
PopLeft(t) ==
    /\ t \in checked /\ fifo[ProcOf(t)] # <<>>
    /\ checked' = checked \ {t}
    /\ hand' = [hand EXCEPT ![t] = Head(fifo[ProcOf(t)])]
    /\ fifo' = [fifo EXCEPT ![ProcOf(t)] = Tail(@)]
    /\ UNCHANGED <<forked, lock, pushed, sending, closed, wire, line, got, raised, short, written>>

\* or raises IndexError, if another thread was faster: push leaves channel_lock,
\* and asyncore closes a channel whose handle_write raises.
PopEmpty(t) ==
    /\ t \in checked /\ fifo[ProcOf(t)] = <<>>
    /\ checked' = checked \ {t} /\ sending' = sending \ {t}
    /\ lock' = [lock EXCEPT ![ProcOf(t)] = IF @ = t THEN Free ELSE @]
    /\ closed' = IF t = Writer THEN closed \union {Runtime} ELSE closed
    /\ UNCHANGED <<forked, fifo, pushed, hand, wire, line, got, raised, short, written>>

\* sends as much of it as the socket takes, and puts back what is left, unless
\* the socket took nothing: then the block is gone.
Room(t) == IF ProcOf(t) \in closed THEN 0 ELSE Capacity - Len(wire)
Begun(units) == IF Head(units)[3] = 1 THEN <<<<Head(units)[1], Head(units)[2]>>>> ELSE <<>>
Send(t) ==
    /\ t \in sending /\ hand[t] # <<>>
    /\ LET n == Least(Len(hand[t]), Room(t))
           rest == SubSeq(hand[t], n + 1, Len(hand[t]))
       IN  /\ wire' = wire \o SubSeq(hand[t], 1, n)
           /\ fifo' = [fifo EXCEPT ![ProcOf(t)] = IF n > 0 /\ rest # <<>> THEN <<rest>> \o @ ELSE @]
           /\ short' = (short \/ rest # <<>>)
           /\ written' = IF n > 0 THEN written \o Begun(hand[t]) ELSE written
    /\ hand' = [hand EXCEPT ![t] = <<>>]
    /\ UNCHANGED <<forked, lock, pushed, sending, checked, closed, line, got, raised>>

\* Mutant: push does not leave channel_lock.
ReturnLocked(t) ==
    /\ t \in sending \ checked /\ hand[t] = <<>>
    /\ fifo[ProcOf(t)] = <<>> \/ ProcOf(t) \in closed
    /\ sending' = sending \ {t}
    /\ UNCHANGED <<forked, lock, fifo, pushed, checked, hand, closed, wire, line, got, raised, short, written>>

\* initiate_send returns when the queue is empty, and push leaves channel_lock.
Return(t) ==
    /\ t \in sending \ checked /\ hand[t] = <<>>
    /\ fifo[ProcOf(t)] = <<>> \/ ProcOf(t) \in closed
    /\ sending' = sending \ {t}
    /\ lock' = [lock EXCEPT ![ProcOf(t)] = IF @ = t THEN Free ELSE @]
    /\ UNCHANGED <<forked, fifo, pushed, checked, hand, closed, wire, line, got, raised, short, written>>

\* Mutant: the child makes a lock of its own, and keeps the queue.
ForkUnlocked(c) ==
    /\ c \notin forked
    /\ forked' = forked \union {c}
    /\ fifo' = [fifo EXCEPT ![c] = fifo[Runtime]]
    /\ closed' = IF Runtime \in closed THEN closed \union {c} ELSE closed
    /\ UNCHANGED <<lock, pushed, sending, checked, hand, wire, line, got, raised, short, written>>

\* A process is forked with the queue and the lock of the moment: a lock that
\* another thread holds is never released in the child.
Fork(c) ==
    /\ c \notin forked
    /\ forked' = forked \union {c}
    /\ lock' = [lock EXCEPT ![c] = lock[Runtime]]
    /\ fifo' = [fifo EXCEPT ![c] = fifo[Runtime]]
    /\ closed' = IF Runtime \in closed THEN closed \union {c} ELSE closed
    /\ UNCHANGED <<pushed, sending, checked, hand, wire, line, got, raised, short, written>>
-----------------------------------------------------------------------------
Parses(units) == \E m \in AllMessages : units = Line(m)
Parsed(units) == CHOOSE m \in AllMessages : units = Line(m)

\* deserialize adds piece to piece of received_data until they are one message, and
\* leaves the others.  The pieces are what recv returned, of any length.
TakeMessage ==
    \E n \in DOMAIN line :
        /\ Parses(SubSeq(line, 1, n))
        /\ got' = Append(got, Parsed(SubSeq(line, 1, n)))
        /\ line' = SubSeq(line, n + 1, Len(line))

\* It takes all of them if they never are.
TakeNothing ==
    /\ ~Parses(line)
    /\ line' = <<>> /\ UNCHANGED got

\* handle_read goes through what recv returned, here unit by unit: nobody else looks
\* at it.  collect_incoming_data keeps a unit of a message;
Collect ==
    /\ Head(wire) # Term
    /\ line' = Append(line, Head(wire))
    /\ UNCHANGED <<got, raised>>

\* found_terminator handles a message or reports that there is none;
FoundTerminator ==
    /\ Head(wire) = Term /\ line # <<>>
    /\ TakeMessage \/ TakeNothing
    /\ UNCHANGED raised

\* an empty line has nothing to pop.
FoundNothing ==
    /\ Head(wire) = Term /\ line = <<>>
    /\ raised' = TRUE
    /\ UNCHANGED <<line, got>>

HandleRead ==
    /\ ~raised /\ wire # <<>>
    /\ wire' = Tail(wire)
    /\ Collect \/ FoundTerminator \/ FoundNothing
    /\ UNCHANGED <<forked, lock, fifo, pushed, sending, checked, hand, closed, short, written>>

Init ==
    /\ forked = {} /\ lock = [p \in Procs |-> Free]
    /\ fifo = [p \in Procs |-> <<>>]
    /\ pushed = [t \in Pushers |-> 0]
    /\ sending = {} /\ checked = {} /\ closed = {} /\ hand = [t \in Senders |-> <<>>]
    /\ wire = <<>> /\ line = <<>> /\ got = <<>>
    /\ raised = FALSE /\ short = FALSE /\ written = <<>>

Next ==
    \/ \E t \in Pushers : Push(t)
    \/ HandleWrite
    \/ \E t \in Senders : Check(t) \/ PopLeft(t) \/ PopEmpty(t) \/ Send(t) \/ Return(t)
    \/ \E c \in Children : Fork(c)
    \/ HandleRead

Spec == Init /\ [][Next]_vars
FairSpec == Spec /\ WF_vars(HandleRead)
                 /\ (\A t \in Pushers : SF_vars(Push(t)))
                 /\ \A t \in Senders :
                       WF_vars(Check(t) \/ PopLeft(t) \/ PopEmpty(t) \/ Send(t) \/ Return(t))
-----------------------------------------------------------------------------
InTurn(s, t) == \A i, j \in DOMAIN s : i < j /\ s[i][1] = t /\ s[j][1] = t => s[i][2] < s[j][2]

(* Whatever the socket does and however long messages are, the other end handles
   no message twice, and those of a forked process in their order: an installation
   relies on its clears, installs and barriers coming in order (push, initiate_send;
   a process that is forked copies the queue).  Not so for a thread of the runtime:
   while handle_write holds its block, without a lock, its next message may
   overtake it. *)
OnceInOrder ==
    /\ \A i, j \in DOMAIN got : i # j => got[i] # got[j]
    /\ \A c \in Children : InTurn(got, c)

\* push has cut a message.
Cut == \E m \in AllMessages : m[2] <= pushed[m[1]] /\ ~Fits(m)

(* As long as messages fit in a block, the socket takes blocks whole and the channel
   stays open, the stream of several processes is cut at the right places, and every
   message is handled (initiate_send, push, handle_read and deserialize).  A message
   that push cuts may be torn apart by the block of another process, though every
   send is whole. *)
WholeUnlessShort ==
    ~Cut /\ ~short /\ closed = {} =>
        /\ ~raised /\ IsPrefix(got, written)
        /\ sending = {} /\ wire = <<>> => \A m \in AllMessages : m[2] <= pushed[m[1]] => m \in Range(got)

(* Each message is handled in the end, unless one was cut, a send was short or the
   race for the last block closed the channel. *)
EventuallyHandled ==
    \A t \in Threads : \A i \in 1 .. Messages :
        <>(Cut \/ short \/ closed # {} \/ <<t, i>> \in Range(got))
=============================================================================
