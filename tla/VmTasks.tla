------------------------------- MODULE VmTasks -------------------------------
(***************************************************************************)
(* The vm server's task table and service discovery: servers/vm/task.c and *)
(* the cases of servers/vm/main.c that use it.                             *)
(*                                                                         *)
(* vm handles one message at a time and replies without blocking, so each  *)
(* case of its main loop is one step.  The other tasks do what they like,  *)
(* within what the kernel lets a task do: a task blocked in a call makes   *)
(* no other call.                                                          *)
(*                                                                         *)
(* The messages queued by async_send are a mailbox per task ID; that the   *)
(* library behind it is one is checked in Async.                           *)
(***************************************************************************)
EXTENDS Integers, FiniteSets, SequencesExt

CONSTANTS
    NUM_TASKS,      \* CONFIG_NUM_TASKS
    Names,          \* service names
    BADELF,         \* bootfs holds a file that is not an ELF file
    PAGERS,         \* tasks allocate IDs for tasks of their own (minlin, hv)
    MAX_LAUNCHES, MAX_SERVICES, MAX_WATCHES     \* bounds

VM == 1
Slots == 1..NUM_TASKS
Others == Slots \ {VM}
NONE == "none"      \* the empty name
NULL == 0

VARIABLES
    \* struct task; `valid': the head of `watchers' is a list
    in_use, pager, waiting_for, watchers, valid,
    services,           \* <<[name, task], ...>>
    mailbox, notified,  \* async messages and NOTIFY_ASYNC
    created,            \* the kernel's tasks
    pc, peer,           \* what a task does, and the task it is calling
    got,                \* the exits a task has been told of
    launches,           \* counts task.launch
    vm_panic            \* an assertion of vm has failed

tablevars == <<in_use, pager, valid, launches>>
taskvars == <<pc, peer, got>>
vars == <<tablevars, waiting_for, watchers, services, mailbox, notified, created, taskvars,
          vm_panic>>

\* task_init, then spawn_servers launches the first server.
Init ==
    /\ in_use = [t \in Slots |-> t <= 2] /\ created = [t \in Slots |-> t <= 2]
    /\ pager = [t \in Slots |-> IF t <= 2 THEN VM ELSE NULL]
    /\ valid = [t \in Slots |-> t <= 2]
    /\ waiting_for = [t \in Slots |-> NONE]
    /\ watchers = [t \in Slots |-> <<>>] /\ services = <<>>
    /\ mailbox = [t \in Slots |-> <<>>] /\ notified = [t \in Slots |-> FALSE]
    /\ pc = [t \in Slots |-> IF t = 2 THEN "run" ELSE "none"]
    /\ peer = [t \in Slots |-> NULL]
    /\ got = [t \in Slots |-> {}]
    /\ launches = 0 /\ vm_panic = FALSE

-----------------------------------------------------------------------------
\* An application or server with vm as its pager, outside of any call.  The
\* system calls of the tasks minlin and hv allocate do not reach vm.
Runs(t) == ~vm_panic /\ pc[t] = "run" /\ pager[t] = VM

\* Tasks call each other, too; the callee answers, or is gone.
Ask(t, u) ==
    /\ Runs(t) /\ t # u /\ pc[u] = "run"
    /\ pc' = [pc EXCEPT ![t] = "asks"] /\ peer' = [peer EXCEPT ![t] = u]
    /\ UNCHANGED <<tablevars, waiting_for, watchers, services, mailbox, notified, created, got,
                   vm_panic>>

Answer(t) ==
    /\ pc[t] = "asks" /\ (pc[peer[t]] = "run" \/ ~created[peer[t]])
    /\ pc' = [pc EXCEPT ![t] = "run"] /\ peer' = [peer EXCEPT ![t] = NULL]
    /\ UNCHANGED <<tablevars, waiting_for, watchers, services, mailbox, notified, created, got,
                   vm_panic>>

\* The slot the loop of task_alloc finds.
Free == {t \in Slots : ~in_use[t]}
task_alloc == CHOOSE t \in Free : \A u \in Free : t <= u

\* init_task_struct.
init_task_struct(t) ==
    /\ waiting_for' = [waiting_for EXCEPT ![t] = NONE]
    /\ watchers' = [watchers EXCEPT ![t] = <<>>]
    /\ valid' = [valid EXCEPT ![t] = TRUE]

\* TASK_LAUNCH_MSG: task_spawn of a file that is an ELF file, or is not.
task_spawn(elf) ==
    LET t == task_alloc
    IN  /\ in_use' = [in_use EXCEPT ![t] = TRUE]
        /\ pager' = [pager EXCEPT ![t] = VM]
        /\ launches' = launches + 1
        /\ got' = [got EXCEPT ![t] = {}]
        /\ IF elf THEN init_task_struct(t) ELSE UNCHANGED <<waiting_for, watchers, valid>>
        \* The kernel refuses to create a task that exists.
        /\ created' = [created EXCEPT ![t] = @ \/ elf]
        /\ pc' = [pc EXCEPT ![t] = IF elf /\ ~created[t] THEN "run" ELSE @]
        /\ notified' = [notified EXCEPT ![t] = @ /\ ~elf]
        /\ UNCHANGED <<services, mailbox, peer, vm_panic>>

\* When the table is full vm panics by design (`too many tasks'): the tasks
\* here do not go that far.
Launch(c, elf) == Runs(c) /\ launches < MAX_LAUNCHES /\ Free # {} /\ task_spawn(elf)

\* TASK_ALLOC_MSG from a pager, which goes on to create the task.
Alloc(c) ==
    LET t == task_alloc
    IN  /\ Runs(c) /\ Free # {} /\ ~created[t] /\ launches < MAX_LAUNCHES
        /\ in_use' = [in_use EXCEPT ![t] = TRUE] /\ pager' = [pager EXCEPT ![t] = c]
        /\ launches' = launches + 1
        /\ got' = [got EXCEPT ![t] = {}] /\ created' = [created EXCEPT ![t] = TRUE]
        /\ pc' = [pc EXCEPT ![t] = "run"] /\ notified' = [notified EXCEPT ![t] = FALSE]
        /\ UNCHANGED <<waiting_for, watchers, valid, services, mailbox, peer, vm_panic>>

\* The pager destroys the task; TASK_FREE_MSG.
FreeTask(c, t) ==
    /\ Runs(c) /\ in_use[t] /\ pager[t] = c
    /\ in_use' = [in_use EXCEPT ![t] = FALSE] /\ created' = [created EXCEPT ![t] = FALSE]
    /\ pc' = [pc EXCEPT ![t] = "none"]
    /\ UNCHANGED <<pager, valid, launches, waiting_for, watchers, services, mailbox, notified,
                   peer, got, vm_panic>>

-----------------------------------------------------------------------------
\* The watchers that still are in the table get a notification, too.
Notify(ws) == [t \in Slots |-> notified[t] \/ (created[t] /\ t \in ToSet(ws))]
Messages(ws, dead, t) ==
    LET mine == SelectSeq(ws, LAMBDA w : w = t) IN [i \in DOMAIN mine |-> dead]

\* The kernel destroys a task that is no other task's pager.
Destroyed(t) == \A u \in Others \ {t} : created[u] => pager[u] # t

\* Mutant of task_kill: the messages are queued without a notification.
task_kill_quiet(t) ==
    /\ mailbox' = [u \in Slots |-> mailbox[u] \o Messages(watchers[t], t, u)]
    /\ services' = SelectSeq(services, LAMBDA s : s.task # t)
    /\ in_use' = [in_use EXCEPT ![t] = FALSE] /\ valid' = [valid EXCEPT ![t] = FALSE]
    /\ created' = [created EXCEPT ![t] = ~Destroyed(t)]
    /\ pc' = [pc EXCEPT ![t] = "none"] /\ peer' = [peer EXCEPT ![t] = NULL]
    /\ UNCHANGED <<pager, launches, waiting_for, watchers, notified, got, vm_panic>>

\* task_kill: tell the watchers, forget the services, destroy the task.  The
\* watcher entries are freed; the list head is left as it is.
task_kill(t) ==
    /\ mailbox' = [u \in Slots |-> mailbox[u] \o Messages(watchers[t], t, u)]
    /\ notified' = Notify(watchers[t])
    /\ services' = SelectSeq(services, LAMBDA s : s.task # t)
    /\ in_use' = [in_use EXCEPT ![t] = FALSE] /\ valid' = [valid EXCEPT ![t] = FALSE]
    /\ created' = [created EXCEPT ![t] = ~Destroyed(t)]
    /\ pc' = [pc EXCEPT ![t] = "none"] /\ peer' = [peer EXCEPT ![t] = NULL]
    /\ UNCHANGED <<pager, launches, waiting_for, watchers, got, vm_panic>>

\* A task exits: the kernel sends EXCEPTION_MSG to its pager, vm.
Exit(t) ==
    /\ Runs(t)
    /\ pc' = [pc EXCEPT ![t] = "exit"]
    /\ UNCHANGED <<tablevars, waiting_for, watchers, services, mailbox, notified, created, peer,
                   got, vm_panic>>

Exception(t) == ~vm_panic /\ pc[t] = "exit" /\ task_kill(t)

\* vm finds no memory for a payload on its way to t (handle_ool_send).
OutOfMemory(t) == ~vm_panic /\ pc[t] = "lookup" /\ task_kill(t)

-----------------------------------------------------------------------------
\* TASK_WATCH_MSG and TASK_UNWATCH_MSG.  The watchers of the source are servers
\* that watch the client they are serving (dm) or a task they have launched.
MayWatch(c, t) == Runs(c) /\ t # c /\ pc[t] = "asks" /\ peer[t] = c

\* ASSERT(task->in_use) fails, or the list head is not one.
SetWatchers(t, ws) ==
    /\ watchers' = [watchers EXCEPT ![t] = ws]
    /\ vm_panic' = ~(in_use[t] /\ valid[t])
    /\ UNCHANGED <<tablevars, waiting_for, services, mailbox, notified, created, taskvars>>

task_watch(c, t) ==
    MayWatch(c, t) /\ Len(watchers[t]) < MAX_WATCHES /\ SetWatchers(t, Append(watchers[t], c))

\* The first entry of c's goes.
task_unwatch(c, t) ==
    MayWatch(c, t) /\ c \in ToSet(watchers[t]) /\ SetWatchers(t, RemoveFirst(watchers[t], c))

-----------------------------------------------------------------------------
\* Mutant of service_register: only the first waiting task gets the answer.
service_register_one(c, n) ==
    LET waiting == {t \in Slots : waiting_for[t] = n}
        first == {t \in waiting : \A u \in waiting : t <= u}
    IN  /\ services' = Append(services, [name |-> n, task |-> c])
        /\ pc' = [t \in Slots |-> IF t \in first /\ pc[t] = "lookup" THEN "run" ELSE pc[t]]
        /\ waiting_for' = [t \in Slots |-> IF t \in first THEN NONE ELSE waiting_for[t]]

\* DISCOVERY_SERVE_MSG: every task that waits for the name gets its answer.
service_register(c, n) ==
    /\ services' = Append(services, [name |-> n, task |-> c])
    /\ pc' = [t \in Slots |-> IF waiting_for[t] = n /\ pc[t] = "lookup" THEN "run" ELSE pc[t]]
    /\ waiting_for' = [t \in Slots |-> IF waiting_for[t] = n THEN NONE ELSE waiting_for[t]]

Serve(c, n) ==
    /\ Runs(c) /\ Len(services) < MAX_SERVICES
    /\ service_register(c, n)
    /\ UNCHANGED <<tablevars, watchers, mailbox, notified, created, peer, got, vm_panic>>

\* DISCOVERY_LOOKUP_MSG: service_wait answers, or leaves the caller waiting.
service_wait(c, n) ==
    /\ Runs(c)
    /\ IF \E i \in DOMAIN services : services[i].name = n
       THEN UNCHANGED <<waiting_for, pc>>
       ELSE /\ waiting_for' = [waiting_for EXCEPT ![c] = n]
            /\ pc' = [pc EXCEPT ![c] = "lookup"]
    /\ UNCHANGED <<tablevars, watchers, services, mailbox, notified, created, peer, got, vm_panic>>

\* ASYNC_MSG after NOTIFY_ASYNC: async_reply hands over the first message, and
\* notifies again if there are more.
async_reply(c) ==
    /\ Runs(c) /\ notified[c] /\ mailbox[c] # <<>>
    /\ got' = [got EXCEPT ![c] = @ \cup {Head(mailbox[c])}]
    /\ mailbox' = [mailbox EXCEPT ![c] = Tail(@)]
    /\ notified' = [notified EXCEPT ![c] = Tail(mailbox[c]) # <<>>]
    /\ UNCHANGED <<tablevars, waiting_for, watchers, services, created, pc, peer, vm_panic>>

-----------------------------------------------------------------------------
Next ==
    \E c \in Others :
        \/ Launch(c, TRUE) \/ (BADELF /\ Launch(c, FALSE))
        \/ PAGERS /\ (Alloc(c) \/ \E t \in Others : FreeTask(c, t))
        \/ \E t \in Others : Ask(c, t) \/ task_watch(c, t) \/ task_unwatch(c, t)
        \/ Answer(c) \/ Exit(c) \/ Exception(c) \/ OutOfMemory(c) \/ async_reply(c)
        \/ \E n \in Names : Serve(c, n) \/ service_wait(c, n)

Spec == Init /\ [][Next]_vars

-----------------------------------------------------------------------------
(***************************************************************************)
(* Properties.                                                             *)
(***************************************************************************)
\* "This function blocks until the server with the given name has been
\* registered" (docs, ipc_lookup), and not longer: no task waits for a name
\* that is registered, in whatever order tasks serve, look up, die and are
\* launched anew.
NoMissedService ==
    \A t \in Others : pc[t] = "lookup" =>
        \A i \in DOMAIN services : services[i].name # waiting_for[t]

\* What vm believes of its tasks: exactly the tasks in ipc_lookup are recorded
\* as waiting, so no other task is sent an answer it did not ask for.
WaitersBlocked ==
    \A t \in Others : in_use[t] /\ pager[t] = VM /\ created[t] =>
        (waiting_for[t] # NONE <=> pc[t] = "lookup")

\* A lookup never answers with a task ID that is free or belongs to a
\* successor of the server: services go when their server goes.
ServicesLive == \A i \in DOMAIN services : in_use[services[i].task]

\* No assertion of vm fails, and vm uses no list that is not initialised.
VmLives == ~vm_panic

\* The four together: lookups are right in every order of calls and exits.
LookupsRight == NoMissedService /\ WaitersBlocked /\ ServicesLive /\ VmLives

\* w watches t, which exits while w runs; and what w is promised for it: "If the
\* task exits, the watcher task receives an async message", unless the watcher
\* dies or waits for ever itself.
MustBeTold(w, t) == pc[t] = "exit" /\ pc[w] = "run" /\ w \in ToSet(watchers[t])
Told(w, t) == t \in got[w] \/ ~in_use[w]
Waits(w) == pc[w] # "run"

=============================================================================
