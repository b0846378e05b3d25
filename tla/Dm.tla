-------------------------------- MODULE Dm --------------------------------
(***************************************************************************)
(* The device manager (servers/dm) with the handle table it uses           *)
(* (libs/resea/handle.c).  Drivers attach to PCI devices and then use them *)
(* through a handle.  dm has vm watch each driver; when one exits, vm owes *)
(* dm a TASK_EXITED_MSG, which dm pulls when it sees the notification.     *)
(* The kernel hands a notification to a server before any message, and vm  *)
(* gives a dead task's ID to the next one it starts.                       *)
(***************************************************************************)
EXTENDS Integers, FiniteSets, FiniteSetsExt, Functions, SequencesExt

CONSTANTS
    Tasks,      \* task IDs of drivers
    Slots,      \* the PCI slots, in the order dm scans them
    Vendor,     \* slot -> vendor ID
    Device,     \* slot -> device ID
    PCI_ANY,
    Wanted,     \* the <<vendor, device>> that drivers ask for
    DevIds,     \* addresses of struct device; malloc takes the first free one
    HANDLE_MAX,
    MAX_ATTACH, \* bound: how many devices a driver attaches
    MAX_RUNS    \* bound: how often a task ID is used

Idle == <<"recv">>
Handles == 1..HANDLE_MAX
NoDev == 0

VARIABLES
    dm,         \* what dm does
    devices,    \* the list of devices
    dev,        \* address -> [task, run, handle, slot], for allocated devices
    table,      \* <<owner, handle>> -> address, for allocated handles
    bars,       \* slot -> its BAR0: "base", or "ones" while it is sized
    master,     \* the slots that may use DMA
    watched,    \* the drivers vm watches for dm, once per attach
    exited,     \* what vm owes dm, in order
    runs,       \* how often a task ID has been used; it runs if up
    up,         \* the running drivers
    wait,       \* drivers in ipc_call to dm -> their request
    used        \* the last device access: <<task, run>> of the driver and of the
                \* driver the device belongs to, or NoDev if it was freed

vars == <<dm, devices, dev, table, bars, master, watched, exited, runs, up, wait, used>>
drivers == <<watched, exited, runs, up>>

Init ==
    /\ dm = Idle /\ devices = <<>> /\ dev = <<>> /\ table = <<>>
    /\ bars = [s \in Slots |-> "base"] /\ master = {}
    /\ watched = [t \in Tasks |-> 0] /\ exited = <<>>
    /\ runs = [t \in Tasks |-> 0] /\ up = {} /\ wait = <<>> /\ used = <<>>

-----------------------------------------------------------------------------
(***************************************************************************)
(* handle.c and pci.c.                                                     *)
(***************************************************************************)
Put(f, x, y) == [z \in DOMAIN f \cup {x} |-> IF z = x THEN y ELSE f[z]]
Drop(f, X) == Restrict(f, DOMAIN f \ X)

\* The handle IDs of owner that are not in use; handle_alloc takes the first.
Unused(owner) == {h \in Handles : <<owner, h>> \notin DOMAIN table}

handle_alloc(owner) == IF Unused(owner) = {} THEN 0 ELSE Min(Unused(owner))

handle_get(owner, h) == IF <<owner, h>> \in DOMAIN table THEN table[<<owner, h>>] ELSE NoDev

\* pci_find_device: an ID of the device itself that is PCI_ANY matches, one in
\* the request does not.
Matching(vendor, device) ==
    {s \in Slots : /\ vendor = PCI_ANY \/ vendor = Vendor[s]
                   /\ Device[s] = PCI_ANY \/ Device[s] = device}

-----------------------------------------------------------------------------
(***************************************************************************)
(* vm and the drivers (external).                                          *)
(***************************************************************************)
Launch(t) ==
    /\ t \notin up /\ runs[t] < MAX_RUNS
    /\ up' = up \cup {t} /\ runs' = [runs EXCEPT ![t] = @ + 1]
    /\ UNCHANGED <<dm, devices, dev, table, bars, master, watched, exited, wait, used>>

\* The driver exits: vm owes dm one message for each watch.
Exit(t) ==
    /\ t \in up /\ t \notin DOMAIN wait
    /\ up' = up \ {t}
    /\ exited' = exited \o [i \in 1..watched[t] |-> t]
    /\ watched' = [watched EXCEPT ![t] = 0]
    /\ UNCHANGED <<dm, devices, dev, table, bars, master, runs, wait, used>>

Ask(t, request) ==
    /\ t \in up /\ t \notin DOMAIN wait
    /\ request[1] = "attach" =>
         Cardinality({d \in DOMAIN dev : dev[d].task = t /\ dev[d].run = runs[t]}) < MAX_ATTACH
    /\ wait' = Put(wait, t, request)
    /\ UNCHANGED <<dm, devices, dev, table, bars, master, used>> /\ UNCHANGED drivers

-----------------------------------------------------------------------------
(***************************************************************************)
(* dm's main loop.                                                         *)
(***************************************************************************)

\* NOTIFICATIONS_MSG, TASK_EXITED_MSG: the task's devices are unlinked and
\* freed; their handles stay.
TaskExited ==
    /\ dm = Idle /\ exited # <<>>
    /\ exited' = Tail(exited)
    /\ LET gone == {d \in DOMAIN dev : dev[d].task = Head(exited)}
       IN  /\ devices' = SelectSeq(devices, LAMBDA d : d \notin gone)
           /\ dev' = Drop(dev, gone)
    /\ UNCHANGED <<dm, table, bars, master, watched, runs, up, wait, used>>

\* dm receives t's request.
Receives(t, kind) ==
    /\ dm = Idle /\ exited = <<>> /\ t \in DOMAIN wait /\ wait[t][1] = kind

Answered(t) == wait' = Drop(wait, {t})

\* DM_ATTACH_PCI_DEVICE_MSG for a device that is not there.
AttachFails(t) ==
    /\ Receives(t, "attach") /\ Matching(wait[t][2], wait[t][3]) = {}
    /\ Answered(t)
    /\ UNCHANGED <<dm, devices, dev, table, bars, master, used>> /\ UNCHANGED drivers

\* ... and for one that is: handle_alloc, and pci_fill_pci_device_struct up to
\* the point where the BAR is all ones.
AttachProbe(t) ==
    /\ Receives(t, "attach") /\ Matching(wait[t][2], wait[t][3]) # {}
    /\ DevIds \ DOMAIN dev # {}
    /\ LET d == Min(DevIds \ DOMAIN dev)
           s == Min(Matching(wait[t][2], wait[t][3]))
           h == handle_alloc(t)
       IN  /\ dev' = Put(dev, d, [task |-> t, run |-> runs[t], handle |-> h, slot |-> s])
           /\ table' = IF h = 0 THEN table ELSE Put(table, <<t, h>>, NoDev)
           /\ bars' = [bars EXCEPT ![s] = "ones"]
           /\ dm' = <<"probe", d>>
    /\ UNCHANGED <<devices, master, wait, used>> /\ UNCHANGED drivers

\* The BAR is restored; handle_set asserts that there is a handle.
AttachFill ==
    /\ dm[1] = "probe"
    /\ LET d == dm[2]
       IN  /\ bars' = [bars EXCEPT ![dev[d].slot] = "base"]
           /\ IF dev[d].handle = 0
              THEN dm' = <<"panic">> /\ UNCHANGED <<table, devices>>
              ELSE /\ table' = [table EXCEPT ![<<dev[d].task, dev[d].handle>>] = d]
                   /\ devices' = Append(devices, d)
                   /\ dm' = <<"watch", d>>
    /\ UNCHANGED <<dev, master, wait, used>> /\ UNCHANGED drivers

\* Mutant of AttachReply: the driver is not watched.
AttachReply_blind ==
    /\ dm[1] = "watch"
    /\ dm' = Idle /\ Answered(dev[dm[2]].task)
    /\ UNCHANGED <<devices, dev, table, bars, master, used>> /\ UNCHANGED drivers

\* vm answers TASK_WATCH_MSG, and dm its client.
AttachReply ==
    /\ dm[1] = "watch"
    /\ LET t == dev[dm[2]].task
       IN  watched' = [watched EXCEPT ![t] = @ + 1] /\ Answered(t)
    /\ dm' = Idle
    /\ UNCHANGED <<devices, dev, table, bars, master, exited, runs, up, used>>

\* The other requests look the handle up, and fail or use the device at the
\* address that is there: GET_CONFIG, READ_CONFIG, WRITE_CONFIG of 4 bytes, and
\* ENABLE_BUS_MASTER, which sets a bit of the device.  A freed device is still
\* read; what is in its place decides which device is meant.
Request(t) ==
    /\ Receives(t, "use")
    /\ LET d == handle_get(t, wait[t][2])
       IN  IF d = NoDev THEN UNCHANGED <<used, master>>
           ELSE /\ used' = <<t, runs[t]>> \o IF d \in DOMAIN dev THEN <<dev[d].task, dev[d].run>>
                                          ELSE <<NoDev>>
                /\ master' = IF wait[t][3] /\ d \in DOMAIN dev
                             THEN master \cup {dev[d].slot} ELSE master
    /\ Answered(t)
    /\ UNCHANGED <<dm, devices, dev, table, bars>> /\ UNCHANGED drivers

Next ==
    \/ \E t \in Tasks :
        \/ Launch(t) \/ Exit(t) \/ AttachFails(t) \/ AttachProbe(t) \/ Request(t)
        \/ \E w \in Wanted : Ask(t, <<"attach", w[1], w[2]>>)
        \/ \E h \in Handles, b \in BOOLEAN : Ask(t, <<"use", h, b>>)
    \/ TaskExited \/ AttachFill \/ AttachReply

Spec == Init /\ [][Next]_vars

-----------------------------------------------------------------------------
(***************************************************************************)
(* Properties.                                                             *)
(***************************************************************************)

\* Once dm has handled the exits it was told of, every device on its list is
\* that of a driver that runs now, not of an earlier one with the same task ID.
DevicesOfLive ==
    dm = Idle /\ exited = <<>> =>
        \A i \in DOMAIN devices :
            LET d == dev[devices[i]] IN d.task \in up /\ d.run = runs[d.task]

\* Two devices of the list never share a handle, and a driver's handle leads to
\* the device it attached: entries of the table are set once dm has answered.
HandlesLead ==
    dm = Idle => \A i \in DOMAIN devices :
        handle_get(dev[devices[i]].task, dev[devices[i]].handle) = devices[i]

\* `Restore the original value.': whenever dm waits for a message, every BAR is
\* what it was.
BarsRestored == dm = Idle => \A s \in Slots : bars[s] = "base"

\* A driver only reaches devices that it attached itself.  (Checked where no task
\* ID is used twice.)
OwnDevices == used # <<>> => used = <<used[1], used[2], used[1], used[2]>>

\* dm's list, its handles and the drivers that run agree.
DevicesRight == DevicesOfLive /\ HandlesLead /\ BarsRestored
=============================================================================
