---------------------------- MODULE LogForwarder ----------------------------
(* esp-codes/main/log_forwarder.c: the vprintf hook any task runs, the      *)
(* queue of allocated entries, the task that sends them to the daemon, and  *)
(* the TCP connections it opens one after the other. What hub_client shows  *)
(* of the daemon is DaemonFlag.                                             *)
EXTENDS Naturals, Sequences, FiniteSets

CONSTANTS
    Hosts, NoAddr, \* as in HubClient
    MaxLosses,     \* bound: how often the daemon is withdrawn
    Tasks,         \* the tasks that log
    MaxLines,      \* bound: lines each of them logs
    LOG_QUEUE_LEN, \* entries the queue holds (log_forwarder.c:23)
    SendBuffer,    \* frames a connection holds that the daemon has not read
    Torn           \* what a partial send() leaves of a frame

Lines == Tasks \X (1 .. MaxLines)

ASSUME LogAssumption ==
    /\ NoAddr \notin Hosts
    /\ {LOG_QUEUE_LEN, SendBuffer} \subseteq Nat \ {0}
    /\ {MaxLosses, MaxLines} \subseteq Nat
    /\ Torn \notin Lines

VARIABLES
    found,    \* hub_client_daemon_found()
    addr,     \* hub_client_daemon_ip() and its port
    losses,
    logged,   \* the lines each task has logged
    hook,     \* where each task is in log_forwarder_vprintf
    queue,    \* s_queue
    hand,     \* the line of the entry, then of the frame, the sender has taken
    heap,     \* entries allocated and not freed
    spc,      \* log_sender_task
    conn,     \* s_sock >= 0 and s_connected
    delay,    \* reconnect_delay_ms
    streams   \* the connections so far: what was sent, how much of it the
              \* daemon has read, whether the rest can still arrive

hubVars == <<found, addr, losses>>
hookVars == <<logged, hook>>
senderVars == <<hand, spc, conn, delay>>
vars == <<hubVars, hookVars, queue, heap, senderVars, streams>>

InitialDelay == 500

Init ==
    /\ found = FALSE /\ addr = NoAddr /\ losses = 0
    /\ logged = [t \in Tasks |-> 0]
    /\ hook = [t \in Tasks |-> "idle"]
    /\ queue = << >>
    /\ hand = {}
    /\ heap = 0
    /\ spc = "check"
    /\ conn = FALSE
    /\ delay = InitialDelay
    /\ streams = << >>

-----------------------------------------------------------------------------
(* hub_client, as DaemonFlag specifies it *)

Hub == INSTANCE DaemonFlag WITH flag <- found

HubStep ==
    /\ Hub!FNext
    /\ losses' = IF found /\ ~found' THEN losses + 1 ELSE losses
    /\ losses' <= MaxLosses
    /\ UNCHANGED <<hookVars, queue, heap, senderVars, streams>>

-----------------------------------------------------------------------------
(* log_forwarder_vprintf: any number of tasks may be inside it *)

At(t, from, to) == hook[t] = from /\ hook' = [hook EXCEPT ![t] = to]

(* The serial line and the RTC ring come first. *)
PrintSerial(t) ==
    /\ logged[t] < MaxLines
    /\ At(t, "idle", "printed")
    /\ logged' = [logged EXCEPT ![t] = @ + 1]
    /\ UNCHANGED <<hubVars, queue, heap, senderVars, streams>>

(* Without memory, or without text, the line is dropped. *)
Allocate(t) ==
    /\ \/ At(t, "printed", "idle") /\ UNCHANGED heap
       \/ At(t, "printed", "entry") /\ heap' = heap + 1
    /\ UNCHANGED <<hubVars, logged, queue, senderVars, streams>>

(* Mutant: the entry that finds no room is kept. *)
EnqueueLeaks(t) ==
    /\ At(t, "entry", "idle")
    /\ queue' = IF Len(queue) < LOG_QUEUE_LEN THEN Append(queue, <<t, logged[t]>>) ELSE queue
    /\ UNCHANGED <<hubVars, logged, heap, senderVars, streams>>

(* The hook never blocks: an entry that finds no room is freed. *)
Enqueue(t) ==
    /\ At(t, "entry", "idle")
    /\ IF Len(queue) < LOG_QUEUE_LEN
       THEN queue' = Append(queue, <<t, logged[t]>>) /\ UNCHANGED heap
       ELSE heap' = heap - 1 /\ UNCHANGED queue
    /\ UNCHANGED <<hubVars, logged, senderVars, streams>>

log_forwarder_vprintf == \E t \in Tasks : PrintSerial(t) \/ Allocate(t) \/ Enqueue(t)

-----------------------------------------------------------------------------
(* log_sender_task *)

Step(from, to) == spc = from /\ spc' = to

CheckFound ==
    /\ found
    /\ Step("check", "receive")
    /\ UNCHANGED <<hubVars, hookVars, queue, hand, heap, conn, delay, streams>>

(* Blocks for as long as nothing is logged. *)
TakeEntry ==
    /\ queue # << >>
    /\ Step("receive", "connect")
    /\ hand' = {Head(queue)}
    /\ queue' = Tail(queue)
    /\ UNCHANGED <<hubVars, hookVars, heap, conn, delay, streams>>

AlreadyConnected ==
    /\ conn
    /\ Step("connect", "pack")
    /\ UNCHANGED <<hubVars, hookVars, queue, hand, heap, conn, delay, streams>>

(* connect() is called with the address of this moment. *)
Dial ==
    /\ ~conn
    /\ Step("connect", IF addr \in Hosts THEN "dialling" ELSE "dialling_nobody")
    /\ UNCHANGED <<hubVars, hookVars, queue, hand, heap, conn, delay, streams>>

ConnectOk ==
    /\ Step("dialling", "pack")
    /\ conn' = TRUE
    /\ delay' = InitialDelay
    /\ streams' = Append(streams, [frames |-> << >>, read |-> 0, up |-> TRUE])
    /\ UNCHANGED <<hubVars, hookVars, queue, hand, heap>>

(* Mutant: the delay is never capped. *)
BackoffUncapped(d) == d * 2

Backoff(d) == IF d < 10000 THEN d * 2 ELSE 10000

(* Mutant: a failed connect ends the task. *)
ConnectFailsReturns ==
    /\ Step("dialling", "ended") \/ Step("dialling_nobody", "ended")
    /\ UNCHANGED <<hubVars, hookVars, queue, hand, heap, conn, delay, streams>>

(* socket() or connect() fails. *)
ConnectFails ==
    /\ Step("dialling", "connect") \/ Step("dialling_nobody", "connect")
    /\ delay' = Backoff(delay)
    /\ UNCHANGED <<hubVars, hookVars, queue, hand, heap, conn, streams>>

(* The frame is put together and the entry freed, before send(). *)
PackFrame ==
    /\ Step("pack", "send")
    /\ heap' = heap - 1
    /\ UNCHANGED <<hubVars, hookVars, queue, hand, conn, delay, streams>>

Current == streams[Len(streams)]

Full(s) == s.up /\ Len(s.frames) - s.read >= SendBuffer

(* send() blocks while the buffer is full. It may take a part of the frame, *)
(* which counts as success, and a connection that is dead loses what it     *)
(* takes.                                                                   *)
SendOk ==
    /\ Step("send", "check")
    /\ ~Full(Current)
    /\ IF Current.up
       THEN \E f \in hand \cup {Torn} : streams' = [streams EXCEPT ![Len(streams)].frames = Append(@, f)]
       ELSE UNCHANGED streams
    /\ hand' = {}
    /\ UNCHANGED <<hubVars, hookVars, queue, heap, conn, delay>>

(* Mutant: the line that was not sent is queued again. *)
SendFailsRequeues ==
    /\ Step("send", "check")
    /\ conn' = FALSE
    /\ delay' = Backoff(delay)
    /\ \E m \in hand : queue' = Append(queue, m)
    /\ hand' = {}
    /\ heap' = heap + 1
    /\ UNCHANGED <<hubVars, hookVars, streams>>

(* What was sent before may still arrive after close(). *)
SendFails ==
    /\ Step("send", "check")
    /\ conn' = FALSE
    /\ delay' = Backoff(delay)
    /\ hand' = {}
    /\ UNCHANGED <<hubVars, hookVars, queue, heap, streams>>

(* The steps of the task that depend on nobody; send() comes back with an   *)
(* error only when the network makes it.                                    *)
Proceed ==
    \/ CheckFound \/ TakeEntry \/ AlreadyConnected
    \/ Dial \/ ConnectOk \/ ConnectFails \/ PackFrame \/ SendOk

log_sender_task == Proceed \/ SendFails

-----------------------------------------------------------------------------
(* The network and the daemon *)

(* The daemon takes the next frame off connection k. *)
DaemonReads(k) ==
    /\ streams[k].up /\ streams[k].read < Len(streams[k].frames)
    /\ streams' = [streams EXCEPT ![k].read = @ + 1]
    /\ UNCHANGED <<hubVars, hookVars, queue, heap, senderVars>>

(* What is in flight on connection k is lost with it. *)
Cut(k) ==
    /\ streams[k].up
    /\ streams' = [streams EXCEPT ![k].up = FALSE,
                                  ![k].frames = SubSeq(@, 1, streams[k].read)]
    /\ UNCHANGED <<hubVars, hookVars, queue, heap, senderVars>>

NetworkStep == \E k \in DOMAIN streams : DaemonReads(k) \/ Cut(k)

Next == HubStep \/ log_forwarder_vprintf \/ log_sender_task \/ NetworkStep

Spec == Init /\ [][Next]_vars

(* The sender is scheduled and connect() returns; a daemon that is dialled  *)
(* again and again accepts at some time. Nothing is assumed of the tasks    *)
(* that log, of the network, or of a daemon reading what it is sent.        *)
FairSpec == Spec /\ WF_vars(Proceed) /\ SF_vars(ConnectOk)

-----------------------------------------------------------------------------
(* The types of the hook, the queue and the sender. The sender never leaves *)
(* its loop, and its delay stays within one doubling of the 10 s at which   *)
(* the code stops doubling it.                                              *)
TypeOK ==
    /\ found \in BOOLEAN /\ addr \in Hosts \cup {NoAddr} /\ losses \in 0 .. MaxLosses
    /\ logged \in [Tasks -> 0 .. MaxLines]
    /\ hook \in [Tasks -> {"idle", "printed", "entry"}]
    /\ queue \in Seq(Lines) /\ hand \subseteq Lines /\ heap \in Nat
    /\ spc \in {"check", "receive", "connect", "dialling", "dialling_nobody", "pack", "send"}
    /\ conn \in BOOLEAN /\ (conn => streams # << >>)
    /\ delay \in 500 .. 2 * 10000
    /\ streams \in Seq([frames : Seq(Lines \cup {Torn}), read : Nat, up : BOOLEAN])

(* Every allocated entry is in the queue, in the hands of a task inside the *)
(* hook, or in the sender's: the hook's drops and the sender's failure      *)
(* paths free what they take, once.                                         *)
HeapLedger ==
    heap = Len(queue) + Cardinality({t \in Tasks : hook[t] = "entry"})
             + IF spc \in {"connect", "dialling", "dialling_nobody", "pack"} THEN 1 ELSE 0

(* What the daemon has read of a connection as log lines: behind a torn     *)
(* frame it has lost the frame boundaries.                                  *)
Received(k) ==
    {i \in 1 .. streams[k].read : \A j \in 1 .. i : streams[k].frames[j] # Torn}

(* Whatever reconnects and failed sends there are, no line reaches the      *)
(* daemon twice, and on one connection the lines of a task arrive in the    *)
(* order it logged them. (Lines of two tasks, and lines of two connections, *)
(* may change places.)                                                      *)
InOrderOnce ==
    \A k, l \in DOMAIN streams : \A i \in Received(k), j \in Received(l) :
        LET a == streams[k].frames[i]
            b == streams[l].frames[j]
        IN /\ a = b => k = l /\ i = j
           /\ k = l /\ i < j /\ a[1] = b[1] => a[2] < b[2]

Queued(m) == \E i \in DOMAIN queue : queue[i] = m

SendBlocked == spc = "send" /\ Full(Current)

(* While a daemon stays found and does not leave the sender in a blocked    *)
(* send() for ever, every queued line leaves the queue: a lost connection   *)
(* or an interrupted discovery never wedges the sender.                     *)
QueueDrains ==
    <>[](found /\ addr \in Hosts) /\ []<>~SendBlocked
        => \A m \in Lines : Queued(m) ~> ~Queued(m)

(* log_forwarder.c:106: the delay between two attempts is at most 10 s. *)
DelayCapped == delay <= 10000

(* log_forwarder.h: lines logged before the daemon is discovered are        *)
(* dropped, so none enters the queue.                                       *)
EarlyLinesDropped == [][Len(queue') > Len(queue) => found]_vars

(* hub_client.h:52: the address is valid only after                         *)
(* hub_client_daemon_found() returns true, so the sender dials it only      *)
(* while a daemon is found.                                                 *)
DialsFoundDaemon == [][Dial => found]_vars
=============================================================================
