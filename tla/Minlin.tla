-------------------------------- MODULE Minlin --------------------------------
(***************************************************************************)
(* The Linux compatibility server (servers/minlin): processes, their       *)
(* system calls, and the queues on which calls wait.  A process is a task  *)
(* whose traps the kernel turns into ABI_HOOK messages to the server       *)
(* (kernel/syscall.c, abi_emu_hook); it runs again when the server         *)
(* replies.  The server handles one message at a time, and one step of the *)
(* model is one message.  What a call copies from and to the process is    *)
(* the subject of module MinlinMm.                                         *)
(***************************************************************************)
EXTENDS Integers, FiniteSets, SequencesExt

CONSTANTS
    MAX_PROCS,      \* bound: the number of processes ever made
    FD_MAX,         \* 128 in proc.h
    QUEUE_LEN,      \* 32 in tty.c
    MAX_TYPED,      \* bound: the number of characters typed
    Calls,          \* the system calls that processes make
    Elfs,           \* the paths of executable files
    FileSize        \* path -> length, for every path the file server knows

Pids == 1..MAX_PROCS
Fds == 0..(FD_MAX - 1)
Call(op, fd, n, path) == [op |-> op, fd |-> fd, n |-> n, path |-> path]
NoCall == Call("none", 0, 0, "")

ENOENT == -2
EINVAL == -22
EDOM == -33
ENOSYS == -38
EBADFD == -77

VARIABLES
    procs,      \* the list of processes
    proc,       \* struct proc of every pid
    task,       \* the task of every pid, as the kernel sees it
    wait_wq,    \* waiting_procs_wq
    read_wq,    \* read_wq of the inode of the terminal
    tty,        \* the terminal: queue, rp, wp
    typed,      \* characters typed so far; the i-th is the number i
    taken,      \* how many of them the server has read from the kernel
    irq,        \* NOTIFY_IRQ is pending
    delivered,  \* the characters that read calls have returned, in order
    server      \* "ok", "halted" (NYI) or "overrun" (a descriptor out of range)

vars == <<procs, proc, task, wait_wq, read_wq, tty, typed, taken, irq, delivered, server>>
ttyVars == <<read_wq, tty, typed, taken, irq, delivered>>

None == [ino |-> "", pos |-> 0]
Console == [ino |-> "/dev/console", pos |-> 0]

\* fs_fork: the descriptors of a new process, whoever forked it.
fs_fork == [fd \in Fds |-> IF fd <= 2 THEN Console ELSE None]

NewProc == [state |-> "RUNNABLE", parent |-> 0, file |-> None, files |-> fs_fork, fsbase |-> 0,
            frame |-> 0, exec |-> "", stack |-> TRUE]
NewTask == [st |-> "none", call |-> NoCall, ret |-> 0, fs |-> 0]

\* proc_init and the proc_execve of main: the first process has its image.
Init ==
    /\ procs = <<1>> /\ proc = [p \in Pids |-> NewProc]
    /\ task = [p \in Pids |-> IF p = 1 THEN [NewTask EXCEPT !.st = "initial"] ELSE NewTask]
    /\ wait_wq = <<>> /\ read_wq = <<>> /\ tty = [queue |-> [i \in 0..(QUEUE_LEN - 1) |-> 0], rp |-> 0, wp |-> 0]
    /\ typed = 0 /\ taken = 0 /\ irq = FALSE /\ delivered = <<>> /\ server = "ok"

-----------------------------------------------------------------------------
(***************************************************************************)
(* The task of a process: abi_emu_hook sends the frame to the pager and    *)
(* waits for the frame to go on with.                                      *)
(***************************************************************************)
Trap(p, c) ==
    /\ task[p].st = "running"
    /\ task' = [task EXCEPT ![p].st = "syscall", ![p].call = c]
    /\ UNCHANGED <<procs, proc, wait_wq, server, ttyVars>>

\* proc_lookup_by_task, and the frame that handle_syscall saves.
Receives(p, kind) ==
    server = "ok" /\ task[p].st = kind /\ p \in Range(procs)

\* The end of try_syscall: the task goes on with the result and the segment
\* base that the server keeps.
Reply(t, p, ret, fsbase) == [t EXCEPT ![p].st = "running", ![p].ret = ret, ![p].fs = fsbase]

\* The task of a call that returned -EBLOCKED stays in its call.
Block(t, p) == [t EXCEPT ![p].st = "waiting"]

\* ABI_HOOK_TYPE_INITIAL: a forked process goes on where its parent was, with
\* result 0, another one starts at the entry point.  Without a stack in its
\* address space it stays in its first page fault.
Initial(p) ==
    /\ Receives(p, "initial")
    /\ task' = [task EXCEPT ![p] =
          [NewTask EXCEPT !.st = IF proc[p].stack THEN "running" ELSE "fault",
                          !.fs = IF proc[p].state = "FORKED" THEN proc[p].frame ELSE proc[p].fsbase]]
    /\ UNCHANGED <<procs, proc, wait_wq, server, ttyVars>>

-----------------------------------------------------------------------------
(***************************************************************************)
(* Processes.                                                              *)
(***************************************************************************)

\* proc_fork.  The child gets the frame of the call, fresh descriptors and a
\* copy of the address space.
Fork(p) ==
    /\ Receives(p, "syscall") /\ task[p].call.op = "fork"
    /\ \E child \in Pids :
          /\ task[child].st = "none" /\ \A q \in Pids : q < child => task[q].st # "none"
          /\ procs' = Append(procs, child)
          /\ proc' = [proc EXCEPT ![child] =
                [NewProc EXCEPT !.state = "FORKED", !.parent = p, !.fsbase = proc[p].fsbase,
                                !.frame = task[p].fs, !.exec = proc[p].exec]]
          /\ task' = [Reply(task, p, child, proc[p].fsbase) EXCEPT ![child].st = "initial"]
    /\ UNCHANGED <<wait_wq, server, ttyVars>>

\* proc_execve.  The address space and the task are gone before the file is
\* opened.  A failure is answered to the new task, which is not in a call, so
\* that the kernel refuses the reply.
Execve(p) ==
    LET path == task[p].call.path
    IN  /\ Receives(p, "syscall") /\ task[p].call.op = "execve" /\ path # "/dev/console"
        /\ task' = [task EXCEPT ![p] = [NewTask EXCEPT !.st = "initial", !.call = task[p].call]]
        /\ proc' = [proc EXCEPT ![p] =
              IF path \in Elfs
              THEN [@ EXCEPT !.state = "RUNNABLE", !.fsbase = 0, !.exec = path, !.stack = TRUE]
              ELSE [@ EXCEPT !.exec = IF path \in DOMAIN FileSize THEN path ELSE @, !.stack = FALSE]]
        /\ UNCHANGED <<procs, wait_wq, server, ttyVars>>

\* Mutant of proc_try_wait: any process that has exited.
proc_try_wait_any(pr, p) ==
    LET all == {i \in DOMAIN procs : pr[procs[i]].state = "EXITED"}
    IN  IF all = {} THEN 0 ELSE procs[Min(all)]

\* proc_try_wait: the first process of the list that has exited and is a child
\* of p, or 0 for -EAGAIN.
proc_try_wait(pr, p) ==
    LET dead(i) == pr[procs[i]].state = "EXITED" /\ pr[procs[i]].parent = p
        all == {i \in DOMAIN procs : dead(i)}
    IN  IF all = {} THEN 0 ELSE procs[Min(all)]

\* sys_wait4: proc_destroy takes the child out of the list, or the caller sleeps.
Wait4(p) ==
    /\ Receives(p, "syscall") /\ task[p].call.op = "wait4"
    /\ LET child == proc_try_wait(proc, p)
       IN  IF child = 0
           THEN /\ proc' = [proc EXCEPT ![p].state = "SLEEPING"] /\ wait_wq' = Append(wait_wq, p)
                /\ task' = Block(task, p) /\ UNCHANGED procs
           ELSE /\ procs' = SelectSeq(procs, LAMBDA q : q # child)
                /\ task' = Reply(task, p, child, proc[p].fsbase) /\ UNCHANGED <<proc, wait_wq>>
    /\ UNCHANGED <<server, ttyVars>>

\* Mutant of Exit: a waiter that finds nothing is not put back.
Exit_drop(p) ==
    LET gone == [proc EXCEPT ![p].state = "EXITED"]
        w == Head(wait_wq)
        child == proc_try_wait(gone, w)
    IN  /\ Receives(p, "syscall") /\ task[p].call.op = "exit"
        /\ IF wait_wq = <<>>
           THEN proc' = gone /\ task' = Block(task, p) /\ UNCHANGED <<procs, wait_wq>>
           ELSE IF child = 0
           THEN proc' = gone /\ wait_wq' = Tail(wait_wq) /\ task' = Block(task, p) /\ UNCHANGED procs
           ELSE /\ proc' = [gone EXCEPT ![w].state = "RUNNABLE"] /\ wait_wq' = Tail(wait_wq)
                /\ procs' = SelectSeq(procs, LAMBDA q : q # child)
                /\ task' = Reply(Block(task, p), w, child, proc[w].fsbase)
        /\ UNCHANGED <<server, ttyVars>>

\* sys_exit.  proc_exit wakes one waiter (waitqueue_wake_all), whose wait4 is
\* tried again and, if it finds nothing, sleeps at the end of the queue.
Exit(p) ==
    LET gone == [proc EXCEPT ![p].state = "EXITED"]
        w == Head(wait_wq)
        child == proc_try_wait(gone, w)
    IN  /\ Receives(p, "syscall") /\ task[p].call.op = "exit"
        /\ IF wait_wq = <<>>
           THEN proc' = gone /\ task' = Block(task, p) /\ UNCHANGED <<procs, wait_wq>>
           ELSE IF child = 0
           THEN /\ proc' = gone /\ wait_wq' = Append(Tail(wait_wq), w)
                /\ task' = Block(task, p) /\ UNCHANGED procs
           ELSE /\ proc' = [gone EXCEPT ![w].state = "RUNNABLE"] /\ wait_wq' = Tail(wait_wq)
                /\ procs' = SelectSeq(procs, LAMBDA q : q # child)
                /\ task' = Reply(Block(task, p), w, child, proc[w].fsbase)
        /\ UNCHANGED <<server, ttyVars>>

-----------------------------------------------------------------------------
(***************************************************************************)
(* The terminal.                                                           *)
(***************************************************************************)
\* A key is pressed: the kernel keeps the character and notifies the server.
Type ==
    /\ typed < MAX_TYPED /\ typed' = typed + 1 /\ irq' = TRUE
    /\ UNCHANGED <<procs, proc, task, wait_wq, server, read_wq, tty, taken, delivered>>

\* read of tty.c, if there is something: what it returns and what remains.
Available(t, n) == IF t.wp - t.rp < n THEN t.wp - t.rp ELSE n
Chars(t, n) == [i \in 1..Available(t, n) |-> t.queue[(t.rp + i - 1) % QUEUE_LEN]]

Consume(t, n) == [t EXCEPT !.rp = @ + Available(t, n)]

\* on_new_data: every character waiting in the kernel goes into the ring.
Filled ==
    LET n == typed - taken
    IN  [tty EXCEPT !.wp = @ + n,
                    !.queue = [i \in DOMAIN @ |->
                        LET at == {k \in 1..n : (tty.wp + k - 1) % QUEUE_LEN = i}
                        IN  IF at = {} THEN @[i] ELSE taken + Max(at)]]

\* Mutant of OnNewData: nobody is woken.
OnNewData_quiet ==
    /\ server = "ok" /\ irq /\ irq' = FALSE /\ taken' = typed /\ tty' = Filled
    /\ UNCHANGED <<proc, task, read_wq, delivered, procs, wait_wq, typed, server>>

\* NOTIFY_IRQ.  One reader is woken, and its read is tried again.
OnNewData ==
    LET w == Head(read_wq)
        n == task[w].call.n
    IN  /\ server = "ok" /\ irq /\ irq' = FALSE /\ taken' = typed
        /\ IF read_wq = <<>> THEN tty' = Filled /\ UNCHANGED <<proc, task, read_wq, delivered>>
           ELSE IF Filled.rp = Filled.wp
           THEN tty' = Filled /\ read_wq' = Append(Tail(read_wq), w) /\ UNCHANGED <<proc, task, delivered>>
           ELSE /\ tty' = Consume(Filled, n) /\ delivered' = delivered \o Chars(Filled, n)
                /\ proc' = [proc EXCEPT ![w].state = "RUNNABLE"] /\ read_wq' = Tail(read_wq)
                /\ task' = Reply(task, w, Available(Filled, n), proc[w].fsbase)
        /\ UNCHANGED <<procs, wait_wq, typed, server>>

\* get_file_by_fd.
get_file_by_fd(p, fd) == IF fd >= FD_MAX THEN None ELSE proc[p].files[fd]

\* sys_read of the terminal: proc_block if there is nothing.
ReadTty(p) ==
    LET n == task[p].call.n
    IN  /\ Receives(p, "syscall") /\ task[p].call.op = "read"
        /\ get_file_by_fd(p, task[p].call.fd).ino = Console.ino
        /\ IF tty.rp = tty.wp
           THEN /\ proc' = [proc EXCEPT ![p].state = "SLEEPING"] /\ read_wq' = Append(read_wq, p)
                /\ task' = Block(task, p) /\ UNCHANGED <<tty, delivered>>
           ELSE /\ tty' = Consume(tty, n) /\ delivered' = delivered \o Chars(tty, n)
                /\ task' = Reply(task, p, Available(tty, n), proc[p].fsbase) /\ UNCHANGED <<proc, read_wq>>
        /\ UNCHANGED <<procs, wait_wq, typed, taken, irq, server>>

\* sys_read of a file: driver_read asks the file server and moves pos.
ReadFile(p) ==
    LET c == task[p].call
        file == get_file_by_fd(p, c.fd)
        n == LET rest == FileSize[file.ino] - file.pos IN IF rest < c.n THEN rest ELSE c.n
    IN  /\ Receives(p, "syscall") /\ c.op = "read" /\ file.ino \in DOMAIN FileSize
        /\ proc' = [proc EXCEPT ![p].files[c.fd].pos = @ + n]
        /\ task' = Reply(task, p, n, proc[p].fsbase)
        /\ UNCHANGED <<procs, wait_wq, server, ttyVars>>

-----------------------------------------------------------------------------

\* fs_proc_open looks for a free descriptor without looking at FD_MAX.
FreeFds(p) == {fd \in Fds : proc[p].files[fd] = None}

\* look_for_mountpoint and fs_open: the file, or None for an error.
fs_open(path) ==
    IF path \in {"/dev/null", "/dev/console"} THEN Console
    ELSE IF path \in DOMAIN FileSize THEN [ino |-> path, pos |-> 0] ELSE None

Open(p) ==
    LET file == fs_open(task[p].call.path)
    IN  /\ Receives(p, "syscall") /\ task[p].call.op = "open"
        /\ IF FreeFds(p) = {} THEN server' = "overrun" /\ UNCHANGED <<proc, task>>
           ELSE /\ proc' = [proc EXCEPT ![p].files[Min(FreeFds(p))] = file]
                /\ task' = Reply(task, p, IF file = None THEN EDOM ELSE Min(FreeFds(p)), proc[p].fsbase)
                /\ UNCHANGED server
        /\ UNCHANGED <<procs, wait_wq, ttyVars>>

\* Calls that end in NYI(), which stops the server.
Unimplemented(p, c) ==
    \/ c.op \in {"mmap", "lstat"}
    \/ c.op = "execve" /\ c.path = "/dev/console"
    \/ c.op \in {"write", "writev"} /\ get_file_by_fd(p, c.fd).ino \in DOMAIN FileSize

Halt(p) ==
    /\ Receives(p, "syscall") /\ Unimplemented(p, task[p].call) /\ server' = "halted"
    /\ UNCHANGED <<procs, proc, task, wait_wq, ttyVars>>

\* The result of the calls that change nothing but the frame.
Result(p, c) ==
    CASE c.op = "getpid" -> p
      [] c.op \in {"read", "write", "writev"} -> IF get_file_by_fd(p, c.fd) = None THEN EBADFD ELSE c.n
      [] c.op = "stat" -> IF c.path \in DOMAIN FileSize THEN 0 ELSE ENOENT
      [] c.op = "access" -> ENOENT
      [] c.op \in {"close", "ioctl", "rt_sigaction", "rt_sigprocmask", "set_tid_address", "uname"} -> 0
      [] OTHER -> ENOSYS

\* The calls that dispatch knows and that have an action of their own.
Handled(p, c) ==
    \/ c.op \in {"fork", "execve", "wait4", "exit", "open", "arch_prctl"} \/ Unimplemented(p, c)
    \/ c.op = "read" /\ get_file_by_fd(p, c.fd) # None

Plain(p) ==
    /\ Receives(p, "syscall") /\ ~Handled(p, task[p].call)
    /\ task' = Reply(task, p, Result(p, task[p].call), proc[p].fsbase)
    /\ UNCHANGED <<procs, proc, wait_wq, server, ttyVars>>

\* sys_arch_prctl: ARCH_SET_FS (fd 1 stands for its code).
ArchPrctl(p) ==
    LET c == task[p].call
    IN  /\ Receives(p, "syscall") /\ c.op = "arch_prctl"
        /\ proc' = [proc EXCEPT ![p].fsbase = IF c.fd = 1 THEN c.n ELSE @]
        /\ task' = Reply(task, p, IF c.fd = 1 THEN 0 ELSE EINVAL, proc'[p].fsbase)
        /\ UNCHANGED <<procs, wait_wq, server, ttyVars>>

Handle(p) ==
    \/ Initial(p) \/ Fork(p) \/ Execve(p) \/ Wait4(p) \/ Exit(p) \/ ReadTty(p) \/ ReadFile(p)
    \/ Open(p) \/ Halt(p) \/ Plain(p) \/ ArchPrctl(p)

Next ==
    \/ Type \/ OnNewData
    \/ \E p \in Pids : Handle(p) \/ \E c \in Calls : Trap(p, c)

Spec == Init /\ [][Next]_vars

-----------------------------------------------------------------------------

\* A process that is left in its call (try_syscall sent no reply) has exited or
\* sleeps, and then it is once in the queue of the call that it sleeps in, and in
\* no other: nothing is left that nobody can resume, and nothing is resumed twice
\* (the assertions of proc_block and proc_resume).
Resumable ==
    \A p \in Pids :
        LET at(q) == Cardinality({i \in DOMAIN q : q[i] = p})
            asleep == proc[p].state = "SLEEPING"
        IN  /\ (task[p].st = "waiting") <=> (proc[p].state \in {"SLEEPING", "EXITED"})
            /\ at(wait_wq) = (IF asleep /\ task[p].call.op = "wait4" THEN 1 ELSE 0)
            /\ at(read_wq) = (IF asleep /\ task[p].call.op = "read" THEN 1 ELSE 0)

\* A wait4 that returns a process returns a child of the caller that has exited,
\* and takes it from the list: nobody can wait for it again (proc_try_wait).
WaitReturnsChild ==
    \A p \in Pids :
        (task[p].st \in {"syscall", "waiting"} /\ task[p].call.op = "wait4" /\ task'[p].st = "running")
        => LET c == task'[p].ret
           IN  /\ c \in Range(procs) \ Range(procs')
               /\ proc'[c].state = "EXITED" /\ proc'[c].parent = p

\* What read calls return, over all readers, is what was typed, in order, without
\* a loss or a repetition, as long as at most QUEUE_LEN characters are waiting.
TtyFifo == \A i \in DOMAIN delivered : delivered[i] = i

\* A process runs with the segment base that it has set last, that it got from
\* its parent at fork, or that execve gave it: the frame, the task and struct
\* proc do not drift apart over blocking, forks and execve.
SegmentKept == \A p \in Pids : (task[p].st = "running") => (task[p].fs = proc[p].fsbase)

\* Processes, the queues they sleep in and what they read agree.
ProcessesRight == Resumable /\ TtyFifo /\ SegmentKept

\* p sleeps in a read of the terminal while characters are waiting; it goes on,
\* or another process has taken them.
Thirsty(p) == proc[p].state = "SLEEPING" /\ task[p].call.op = "read" /\ Len(delivered) < typed
Quenched(p) == task[p].st = "running" \/ Len(delivered) = typed \/ server # "ok"
=============================================================================
