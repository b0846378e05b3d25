------------------------------- MODULE MCLive -------------------------------
(***************************************************************************)
(* Liveness of servers for TLC: out-of-line messages, task watching, TCP,  *)
(* the terminal of minlin and the halt of a guest. The initial state       *)
(* chooses one of the parts, which then has the variables v1, v2, ... to   *)
(* itself; so one run covers them all.                                     *)
(***************************************************************************)
EXTENDS Integers, FiniteSets, SequencesExt, TLC

VARIABLES
    part,       \* the part of the system that a behaviour is about
    v1, v2, v3, v4, v5, v6, v7, v8, v9, v10, v11, v12, v13, v14

vars == <<part, v1, v2, v3, v4, v5, v6, v7, v8, v9, v10, v11, v12, v13, v14>>

\* Variables that a part does not use: vi and those after it.
Off == "off"
Off13 == v13 = Off /\ v14 = Off
Off12 == v12 = Off /\ Off13
Off9 == v9 = Off /\ v10 = Off /\ v11 = Off /\ Off12
Off8 == v8 = Off /\ Off9
Rest13 == <<v13, v14>>
Rest12 == <<v12, Rest13>>
Rest9 == <<v9, v10, v11, Rest12>>
Rest8 == <<v8, Rest9>>

\* One application opens files and looks services up in vm, two send packets.
NetCalls == {<<2, 4>>, <<2, 1>>}
NetSends == {<<3, 4>>, <<5, 4>>}
\* Both hosts write one buffer of two bytes.
BothOnce == [h \in {"a", "b"} |-> <<2>>]
\* Processes read the terminal, with room for all that is typed.
LongReads == {[op |-> op, fd |-> 0, n |-> 3, path |-> ""] : op \in {"fork", "read", "exit"}}

-----------------------------------------------------------------------------
net == INSTANCE Ool WITH
    VM <- 1, Tasks <- {2, 3, 4, 5}, Calls <- NetCalls, Sends <- NetSends,
    OolTo <- NetCalls \cup NetSends, Payloads <- {11}, Bufs <- {21}, Mortal <- {},
    Faulting <- {},
    in_use <- v1, ool_buf <- v2, received_ool <- v3, ool_sender_queue <- v4,
    ool_ptr <- v5, mem <- v6, pc <- v7, op <- v8, msg <- v9, client <- v10,
    called <- v11, vm_panic <- v12

watch == INSTANCE VmTasks WITH
    NUM_TASKS <- 3, Names <- {"a"}, BADELF <- TRUE, PAGERS <- FALSE, MAX_LAUNCHES <- 2,
    MAX_SERVICES <- 1, MAX_WATCHES <- 2,
    in_use <- v1, pager <- v2, waiting_for <- v3, watchers <- v4, valid <- v5,
    services <- v6, mailbox <- v7, notified <- v8, created <- v9, pc <- v10,
    peer <- v11, got <- v12, launches <- v13, vm_panic <- v14

tcp == INSTANCE Tcp WITH
    MBUF_MAX_LEN <- 4, Garbage <- 0, SEQ <- 256, TCP_RX_BUF_SIZE <- 4, ReadLen <- 2,
    Writes <- BothOnce, CLOSES <- FALSE, Losable <- {"data"}, MAX_LOSS <- 2,
    MAX_DUP <- 0, MAX_LINK <- 1, ORDERED <- TRUE,
    sock <- v1, link <- v2, writes <- v3, written <- v4, got <- v5, lost <- v6,
    dups <- v7

terminal == INSTANCE Minlin WITH
    MAX_PROCS <- 2, FD_MAX <- 3, QUEUE_LEN <- 3, MAX_TYPED <- 3, Calls <- LongReads,
    Elfs <- {"/bin/sh"}, FileSize <- [path \in {"/bin/sh"} |-> 2],
    procs <- v1, proc <- v2, task <- v3, wait_wq <- v4, read_wq <- v5, tty <- v6,
    typed <- v7, taken <- v8, irq <- v9, delivered <- v10, server <- v11

halt == INSTANCE HvIrq WITH
    Guests <- {"g"}, Ops <- {"io", "serial"}, PIC_VALUES <- {},
    pending <- v1, halted <- v2, armed <- v3, fired <- v4, vmx <- v5, next_irq <- v6,
    due <- v7, lost <- v8

-----------------------------------------------------------------------------
Init ==
    \/ part = "net" /\ net!Init /\ Off13
    \/ part = "watch" /\ watch!Init
    \/ part = "tcp" /\ tcp!Init /\ Off8
    \/ part = "terminal" /\ terminal!Init /\ Off12
    \/ part = "halt" /\ halt!Init /\ Off9

InNet == part = "net" /\ UNCHANGED <<part, Rest13>>
InWatch == part = "watch" /\ UNCHANGED part
InTcp == part = "tcp" /\ UNCHANGED <<part, Rest8>>
InTerminal == part = "terminal" /\ UNCHANGED <<part, Rest12>>
InHalt == part = "halt" /\ UNCHANGED <<part, Rest9>>
NetStep == InNet /\ net!Next
WatchStep == InWatch /\ watch!Next
TcpStep == InTcp /\ tcp!Next
TerminalStep == InTerminal /\ terminal!Next
HaltStep == InHalt /\ halt!Next

Next ==
    NetStep \/ WatchStep \/ TcpStep \/ TerminalStep \/ HaltStep

-----------------------------------------------------------------------------
(***************************************************************************)
(* Fairness.  A behaviour stays in its part, so that each of the five      *)
(* conditions stands for one condition on each of the parts.               *)
(***************************************************************************)
\* vm registers its own buffer and handles exits, hosts run, minlin handles its
\* interrupts, the server of a guest its timer.
Fair1 ==
    \/ InNet /\ net!VmRegisters
    \/ InWatch /\ \E t \in {2, 3} : watch!Exception(t)
    \/ InTcp /\ (tcp!Connect \/ \E h \in {"a", "b"} : tcp!Write(h) \/ tcp!Read(h))
    \/ InTerminal /\ terminal!OnNewData
    \/ InHalt /\ halt!ServeTimer

\* Tasks run round robin, vm and a receiver take their senders in order.
Runs(t) == InNet /\ (net!TaskStep(t) \/ net!VmStep(t))

\* A task that runs again and again receives again and again, where notifications
\* come first; timers expire however often packets arrive, and packets that are not
\* lost arrive; minlin takes the system calls of its processes in order; a guest
\* that runs again and again is interrupted; server and kernel go on.
Fair2 ==
    \/ Runs(2)
    \/ InWatch /\ watch!async_reply(2)
    \/ InTcp /\ tcp!Timer("a")
    \/ InTerminal /\ terminal!Handle(1)
    \/ InHalt /\ halt!ExternalIrq("g")
Fair3 ==
    \/ Runs(3)
    \/ InWatch /\ watch!async_reply(3)
    \/ InTcp /\ tcp!Timer("b")
    \/ InTerminal /\ terminal!Handle(2)
    \/ InHalt /\ halt!Tick
Fair4 ==
    \/ Runs(4)
    \/ InTcp /\ tcp!Receive("a", 1, FALSE)
    \/ InHalt /\ halt!HostStep("g")
Fair5 ==
    \/ Runs(5)
    \/ InTcp /\ tcp!Receive("b", 1, FALSE)

Fairness == WF_vars(Fair1) /\ SF_vars(Fair2) /\ SF_vars(Fair3) /\ SF_vars(Fair4) /\ SF_vars(Fair5)

Spec == Init /\ [][Next]_vars /\ Fairness

-----------------------------------------------------------------------------
\* libs/resea/ipc.c and vm: every call returns and every one-way message is
\* delivered; senders that vm queues for a busy receiver are served.
EveryOperationEnds ==
    \A t \in 2..5 : (part = "net" /\ net!InCall(t)) ~> (part = "net" /\ net!OutOfCall(t))

\* vm/task.c: a watcher is told of the exit, unless it dies or waits for ever itself.
\* (The tasks are 2 and 3; no task watches itself.)
WatchersTold ==
    \A w \in {2, 3} :
        (part = "watch" /\ watch!MustBeTold(w, 5 - w))
            ~> ((part = "watch" /\ watch!Told(w, 5 - w)) \/ [](part = "watch" /\ watch!Waits(w)))

\* tcpip/tcp.c: all that is written is read in the end, although packets are lost.
Delivered == []<>(part = "tcp" => \A h \in {"a", "b"} : tcp!AllRead(h))

\* minlin/tty.c: a process that sleeps in a read while characters are waiting goes
\* on, or another process has taken them.
TtyRead ==
    \A p \in {1, 2} :
        (part = "terminal" /\ terminal!Thirsty(p)) ~> (part = "terminal" /\ terminal!Quenched(p))

\* hv/guest.c: a guest that halts with interrupts enabled runs again.
Wakes == (part = "halt" /\ halt!Sleeps("g")) ~> (part = "halt" /\ halt!Awake("g"))
=============================================================================
