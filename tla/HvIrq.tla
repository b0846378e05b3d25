-------------------------------- MODULE HvIrq --------------------------------
(***************************************************************************)
(* How interrupts reach the guests of the hypervisor: the server           *)
(* (servers/hv) collects the IRQs of its devices and of its timer and      *)
(* notifies the guest; the kernel, which runs the guest                    *)
(* (kernel/arch/x64/hv.c), fetches them with an await call on the next     *)
(* exit and injects one that the guest's PIC does not mask.  A guest that  *)
(* halts waits in a call to the server.  PIC vector bases, which no        *)
(* property tells apart, are left out.                                     *)
(***************************************************************************)
EXTENDS Integers, FiniteSets, FiniteSetsExt

CONSTANTS
    Guests,
    Ops,            \* what guests do, of {"io", "serial", "flag", "pic"}, besides running and halting
    PIC_VALUES      \* the bytes written to a PIC, as sets of bits

TIMER == 0
SERIAL == 4         \* VMX_SERIAL_IRQ
DISK == 12          \* the first IRQ of pci_init, of the virtio-blk device

VARIABLES
    pending,        \* server: pending_irq_bitmap of each guest
    halted,         \* server: the guest waits for HV_HALT_REPLY_MSG
    armed, fired,   \* server: its timer; NOTIFY_TIMER is pending
    vmx,            \* kernel: the virtual CPU of each guest; `got' is what its last exit injected
    next_irq,       \* kernel: a static variable, of all guests
    due,            \* ghost: IRQs raised for a guest and not injected since
    lost            \* ghost: a reply found no guest that waits for it

vars == <<pending, halted, armed, fired, vmx, next_irq, due, lost>>
server == [pending |-> pending, halted |-> halted, vmx |-> vmx, lost |-> lost]

Pic == [phase |-> 0, mask |-> {}]
NewVmx ==
    [pc |-> "start", exit |-> "irq", irqs |-> {}, async |-> FALSE, flag |-> FALSE, got |-> {},
     pic |-> [p \in {"master", "slave"} |-> Pic]]

Init ==
    /\ pending = [g \in Guests |-> {}] /\ halted = [g \in Guests |-> FALSE] /\ armed = FALSE /\ fired = FALSE
    /\ vmx = [g \in Guests |-> NewVmx] /\ next_irq = 0 /\ due = [g \in Guests |-> {}] /\ lost = FALSE

-----------------------------------------------------------------------------
(***************************************************************************)
(* The server.                                                             *)
(***************************************************************************)
\* ipc_reply to guests that should be halted: a guest that is not in the call
\* misses it.
ReplyHalt(s, guests) ==
    [s EXCEPT !.halted = [g \in Guests |-> IF g \in guests THEN FALSE ELSE @[g]],
              !.lost = @ \/ \E g \in guests : s.vmx[g].pc # "halted",
              !.vmx = [g \in Guests |-> IF g \in guests /\ @[g].pc = "halted" THEN [@[g] EXCEPT !.pc = "check"] ELSE @[g]]]

\* Mutant of guest_send_pending_events: halted guests are only notified.
guest_send_pending_events_asleep(s) ==
    LET some == {g \in Guests : s.pending[g] # {}}
    IN  [s EXCEPT !.vmx = [g \in Guests |-> IF g \in some THEN [@[g] EXCEPT !.async = TRUE] ELSE @[g]]]

\* guest_send_pending_events.
guest_send_pending_events(s) ==
    LET some == {g \in Guests : s.pending[g] # {}}
    IN  ReplyHalt([s EXCEPT !.vmx = [g \in Guests |-> IF g \in some THEN [@[g] EXCEPT !.async = TRUE] ELSE @[g]]],
                  {g \in some : s.halted[g]})

\* The end of a turn of the server's main loop, and the beginning of the next.
Serve(s) ==
    LET t == guest_send_pending_events(s)
    IN  /\ pending' = t.pending /\ halted' = t.halted /\ vmx' = t.vmx /\ lost' = t.lost
        /\ armed' = TRUE /\ UNCHANGED next_irq

\* HV_X64_START_MSG.
ServeStart(g) ==
    /\ vmx[g].pc = "start" /\ Serve([server EXCEPT !.vmx[g].pc = "run"]) /\ UNCHANGED <<fired, due>>

\* NOTIFY_TIMER: guest_tick.
ServeTimer ==
    LET ticked == [server EXCEPT !.pending = [g \in Guests |-> @[g] \cup {TIMER}]]
    IN  /\ fired /\ fired' = FALSE /\ due' = [g \in Guests |-> due[g] \cup {TIMER}]
        /\ Serve(ReplyHalt(ticked, {g \in Guests : halted[g]}))

\* HV_AWAIT_MSG: all IRQs of the guest are in the reply.
ServeAwait(g) ==
    /\ vmx[g].pc = "await"
    /\ Serve([server EXCEPT !.vmx[g] = [vmx[g] EXCEPT !.pc = "try", !.irqs = @ \cup pending[g]], !.pending[g] = {}])
    /\ UNCHANGED <<fired, due>>

\* HV_IOPORT_WRITE_MSG, here the notify register of the disk: guest_inject_irq.
ServeIo(g) ==
    /\ vmx[g].pc = "io" /\ due' = [due EXCEPT ![g] = @ \cup {DISK}]
    /\ Serve([server EXCEPT !.vmx[g].pc = "run", !.pending[g] = @ \cup {DISK}]) /\ UNCHANGED fired

\* Mutant of ServeHalt: the guest is not remembered.
ServeHalt_forgotten(g) ==
    /\ vmx[g].pc = "halt" /\ Serve([server EXCEPT !.vmx[g].pc = "halted"]) /\ UNCHANGED <<fired, due>>

\* HV_HALT_MSG: no asynchronous message is ever queued for a guest.
ServeHalt(g) ==
    /\ vmx[g].pc = "halt" /\ Serve([server EXCEPT !.vmx[g].pc = "halted", !.halted[g] = TRUE]) /\ UNCHANGED <<fired, due>>

\* The timer that the server sets with every message fires.
Tick == armed /\ armed' = FALSE /\ fired' = TRUE /\ UNCHANGED <<pending, halted, vmx, next_irq, due, lost>>

-----------------------------------------------------------------------------
(***************************************************************************)
(* The kernel on behalf of a guest.                                        *)
(***************************************************************************)
Kernel == UNCHANGED <<pending, halted, armed, fired, lost>>

\* VMEXIT_EXTERNAL_IRQ and VMEXIT_HLT.
ExternalIrq(g) ==
    /\ vmx[g].pc = "run" /\ vmx' = [vmx EXCEPT ![g] = [@ EXCEPT !.pc = "check", !.exit = "irq", !.got = {}]]
    /\ Kernel /\ UNCHANGED <<next_irq, due>>
Hlt(g) ==
    /\ vmx[g].pc = "run" /\ vmx' = [vmx EXCEPT ![g] = [@ EXCEPT !.pc = "check", !.exit = "hlt", !.got = {}]]
    /\ Kernel /\ UNCHANGED <<next_irq, due>>

\* inject_event_if_exists: a notification is received, if there is one, and HV_AWAIT_MSG sent.
Check(g) ==
    /\ vmx[g].pc = "check"
    /\ vmx' = [vmx EXCEPT ![g] = [@ EXCEPT !.pc = IF vmx[g].async THEN "await" ELSE "try", !.async = FALSE]]
    /\ Kernel /\ UNCHANGED <<next_irq, due>>

\* pic_is_irq_masked: the slave is behind bit 2 of the master.
pic_is_irq_masked(v, irq) ==
    IF irq >= 8 THEN 2 \in v.pic["master"].mask \/ (irq - 8) \in v.pic["slave"].mask
    ELSE irq \in v.pic["master"].mask

\* The first of some IRQs from next_irq on.
First(irqs) == CHOOSE irq \in irqs : \A other \in irqs : ((irq - next_irq) % 16) <= ((other - next_irq) % 16)

\* The rest of inject_event_if_exists; in a HLT exit without an interrupt, HV_HALT_MSG.
Try(g) ==
    LET v == vmx[g]
        ready == IF v.flag THEN {irq \in v.irqs : ~pic_is_irq_masked(v, irq)} ELSE {}
    IN  /\ v.pc = "try" /\ Kernel
        /\ IF ready # {}
           THEN LET irq == First(ready)
                IN  /\ vmx' = [vmx EXCEPT ![g] = [v EXCEPT !.pc = "run", !.irqs = @ \ {irq}, !.got = {irq}]]
                    /\ due' = [due EXCEPT ![g] = @ \ ({irq} \ pending[g])] /\ next_irq' = (irq + 1) % 16
           ELSE /\ vmx' = [vmx EXCEPT ![g].pc = IF v.exit = "hlt" THEN "halt" ELSE "run"]
                /\ UNCHANGED <<next_irq, due>>

\* An access to the ports of the disk.
Io(g) ==
    /\ "io" \in Ops /\ vmx[g].pc = "run" /\ vmx' = [vmx EXCEPT ![g].pc = "io"]
    /\ Kernel /\ UNCHANGED <<next_irq, due>>

\* serial_write: its IRQ is raised in the kernel.
Serial(g) ==
    /\ "serial" \in Ops /\ vmx[g].pc = "run" /\ vmx' = [vmx EXCEPT ![g].irqs = @ \cup {SERIAL}]
    /\ due' = [due EXCEPT ![g] = @ \cup {SERIAL}] /\ Kernel /\ UNCHANGED next_irq

\* The guest enables its interrupts, which RFLAGS of init_vmcs disables, or disables them.
Flag(g) ==
    /\ vmx[g].flag => "flag" \in Ops
    /\ vmx[g].pc = "run" /\ vmx' = [vmx EXCEPT ![g].flag = ~@]
    /\ Kernel /\ UNCHANGED <<next_irq, due>>

\* Ports 0x20 and 0xa0 start the initialization; 0x21 and 0xa1 get its other three
\* bytes and, out of it, the mask.
PicInit(g, p) ==
    /\ "pic" \in Ops /\ vmx[g].pc = "run" /\ vmx' = [vmx EXCEPT ![g].pic[p].phase = 1]
    /\ Kernel /\ UNCHANGED <<next_irq, due>>
PicWrite(g, p, value) ==
    /\ "pic" \in Ops /\ vmx[g].pc = "run"
    /\ vmx' = [vmx EXCEPT ![g].pic[p] =
                    [phase |-> IF @.phase \in {0, 3} THEN 0 ELSE @.phase + 1, mask |-> IF @.phase = 0 THEN value ELSE @.mask]]
    /\ Kernel /\ UNCHANGED <<next_irq, due>>

\* A step of the server or of the kernel for g.
HostStep(g) == ServeStart(g) \/ ServeAwait(g) \/ ServeIo(g) \/ ServeHalt(g) \/ Check(g) \/ Try(g)

Next ==
    \/ ServeTimer \/ Tick
    \/ \E g \in Guests :
          \/ HostStep(g) \/ ExternalIrq(g) \/ Hlt(g) \/ Io(g) \/ Serial(g) \/ Flag(g)
          \/ \E p \in {"master", "slave"} : PicInit(g, p) \/ \E value \in PIC_VALUES : PicWrite(g, p, value)
Spec == Init /\ [][Next]_vars

-----------------------------------------------------------------------------

\* No IRQ is lost on its way from the server to the guest, and none is made up.
IrqKept == \A g \in Guests : pending[g] \cup vmx[g].irqs = due[g]

\* The server knows which guests are halted: it wakes those and no others, and its
\* replies find the guest in the call that they answer.
HaltKnown == ~lost /\ \A g \in Guests : halted[g] <=> vmx[g].pc = "halted"

\* A guest sleeps only while there is nothing that the server could tell it.
NoMissedWakeup == \A g \in Guests : vmx[g].pc = "halted" => pending[g] = {}

\* Interrupts reach the guests.
IrqsRight == IrqKept /\ HaltKnown /\ NoMissedWakeup

\* A guest that halts with its interrupts enabled, and one that runs.
Sleeps(g) == vmx[g].pc = "halted" /\ vmx[g].flag
Awake(g) == vmx[g].pc = "run"
=============================================================================
