------------------------------ MODULE VirtioGpu ------------------------------
(***************************************************************************)
(* The virtio GPU driver (servers/drivers/gpu/virtio_gpu): each answer of  *)
(* the device starts the next command, first to enable the display and     *)
(* then, in the demo build, to show what is drawn on every tick.  The      *)
(* device answers at any time, also while the handler of an interrupt      *)
(* empties the queue.                                                      *)
(***************************************************************************)
EXTENDS Virtq

CONSTANTS
    DEMO,           \* CONFIG_VIRTIO_GPU_DEMO
    ANSWERS,        \* what the device answers to a command: "ok" or "error"
    MAX_FRAMES      \* bound: pictures that are drawn

VARIABLES
    driver_state, ctrlq,
    next_buffer_index,
    request, response,      \* the DMA buffers
    framebuffer,            \* the number of the picture in it
    isr, irq, timer,        \* of the device; NOTIFY_IRQ and NOTIFY_TIMER are pending
    pc,                     \* of the driver: in its main loop or in handle_interrupt
    device                  \* [done: commands carried out, host: its copy of the picture, shown: on the screen]

vars == <<driver_state, ctrlq, next_buffer_index, request, response, framebuffer, isr, irq, timer, pc, device>>

\* The command that leads to a state of the driver.
CommandOf ==
    [LOOKING_FOR_DISPLAY |-> "GET_DISPLAY_INFO", CREATING_2D_RESOURCE |-> "RESOURCE_CREATE_2D",
     ATTACHING_FRAMEBUFFER |-> "RESOURCE_ATTACH_BACKING", SETTING_SCANOUT |-> "SET_SCANOUT",
     TRANSFERING_TO_HOST |-> "TRANSFER_TO_HOST_2D", FLUSHING_SCANOUT |-> "RESOURCE_FLUSH"]

\* execute_command: the request and the response buffer are the same entry.
execute_command(vq, cmd) ==
    LET index == next_buffer_index % NUM_DESCS
    IN  /\ request' = [request EXCEPT ![index] = cmd]
        /\ ctrlq' = virtq_push(vq, <<index, index>>).vq /\ next_buffer_index' = next_buffer_index + 1

\* The driver sends the command of a state and waits in it.
Enter(vq, state) == execute_command(vq, CommandOf[state]) /\ driver_state' = state
Rest(vq, state) == ctrlq' = vq /\ driver_state' = state /\ UNCHANGED <<request, next_buffer_index>>

\* init: the first command.
Init ==
    /\ driver_state = "LOOKING_FOR_DISPLAY" /\ ctrlq = virtq_push(virtq_init, <<0, 0>>).vq
    /\ next_buffer_index = 1 /\ request = [i \in Descs |-> "GET_DISPLAY_INFO"] /\ response = [i \in Descs |-> "none"]
    /\ framebuffer = 0 /\ isr = FALSE /\ irq = FALSE /\ timer = FALSE /\ pc = "idle"
    /\ device = [done |-> {}, host |-> 0, shown |-> 0]

\* handle_ok_nodata.
handle_ok_nodata(vq) ==
    \/ driver_state = "CREATING_2D_RESOURCE" /\ Enter(vq, "ATTACHING_FRAMEBUFFER")
    \/ driver_state = "ATTACHING_FRAMEBUFFER" /\ Enter(vq, "SETTING_SCANOUT")
    \/ driver_state = "SETTING_SCANOUT" /\ Enter(vq, "TRANSFERING_TO_HOST")
    \/ driver_state = "TRANSFERING_TO_HOST" /\ Enter(vq, "FLUSHING_SCANOUT")
    \/ driver_state \in {"FLUSHING_SCANOUT", "LOOKING_FOR_DISPLAY", "DISPLAY_ENABLED"}
       /\ Rest(vq, IF driver_state = "FLUSHING_SCANOUT" THEN "DISPLAY_ENABLED" ELSE driver_state)

\* handle_display_info of a device with a display, and initialize_display.
handle_display_info(vq) ==
    IF driver_state = "LOOKING_FOR_DISPLAY" THEN Enter(vq, "CREATING_2D_RESOURCE") ELSE Rest(vq, driver_state)

\* draw_demo.
draw_demo ==
    IF framebuffer < MAX_FRAMES /\ driver_state = "DISPLAY_ENABLED"
    THEN framebuffer' = framebuffer + 1 /\ Enter(ctrlq, "TRANSFERING_TO_HOST")
    ELSE Rest(ctrlq, driver_state) /\ UNCHANGED framebuffer

\* What the main loop does after any notification.
AfterNotification ==
    IF DEMO THEN draw_demo ELSE Rest(ctrlq, driver_state) /\ UNCHANGED framebuffer

\* handle_interrupt: the status is read and cleared; a pending timer is in the same message.
Interrupt ==
    /\ pc = "idle" /\ irq /\ irq' = FALSE /\ timer' = FALSE /\ isr' = FALSE
    /\ IF isr THEN pc' = "pop" /\ Rest(ctrlq, driver_state) /\ UNCHANGED framebuffer
       ELSE pc' = pc /\ AfterNotification
    /\ UNCHANGED <<response, device>>

\* Mutant of Pop: an error is taken for the answer to a flush.
Pop_retry ==
    /\ pc = "pop"
    /\ \E r \in {virtq_pop(ctrlq, 2)} :
          IF r.addrs = <<>> THEN pc' = "idle" /\ AfterNotification
          ELSE /\ pc' = pc /\ UNCHANGED framebuffer
               /\ CASE response[r.addrs[2]] = "OK_NODATA" -> handle_ok_nodata(r.vq)
                    [] response[r.addrs[2]] = "OK_DISPLAY_INFO" -> handle_display_info(r.vq)
                    [] OTHER -> Enter(r.vq, "TRANSFERING_TO_HOST")
    /\ UNCHANGED <<response, isr, irq, timer, device>>

\* One turn of the loop of handle_interrupt; draw_demo follows the last.
Pop ==
    /\ pc = "pop"
    /\ \E r \in {virtq_pop(ctrlq, 2)} :
          IF r.addrs = <<>> THEN pc' = "idle" /\ AfterNotification
          ELSE /\ pc' = pc /\ UNCHANGED framebuffer
               /\ CASE response[r.addrs[2]] = "OK_NODATA" -> handle_ok_nodata(r.vq)
                    [] response[r.addrs[2]] = "OK_DISPLAY_INFO" -> handle_display_info(r.vq)
                    [] OTHER -> Rest(r.vq, driver_state)
    /\ UNCHANGED <<response, isr, irq, timer, device>>

\* A message with NOTIFY_TIMER only.
Timer ==
    /\ pc = "idle" /\ timer /\ ~irq /\ timer' = FALSE /\ AfterNotification
    /\ UNCHANGED <<response, isr, irq, pc, device>>

\* The timer set by main fires.
Tick ==
    /\ DEMO /\ ~timer /\ framebuffer < MAX_FRAMES /\ timer' = TRUE
    /\ UNCHANGED <<driver_state, ctrlq, next_buffer_index, request, response, framebuffer, isr, irq, pc, device>>

\* The device carries out the next command and interrupts.
Device ==
    /\ Waiting(ctrlq) /\ ctrlq' = Complete(ctrlq) /\ isr' = TRUE /\ irq' = TRUE
    /\ \E answer \in ANSWERS, addrs \in {NextAddrs(ctrlq)} :
          LET cmd == request[addrs[1]]
              ok == answer = "ok"
          IN  /\ response' = [response EXCEPT ![addrs[2]] =
                    IF ~ok THEN "error" ELSE IF cmd = "GET_DISPLAY_INFO" THEN "OK_DISPLAY_INFO" ELSE "OK_NODATA"]
              /\ device' = [done |-> IF ok THEN device.done \cup {cmd} ELSE device.done,
                            host |-> IF ok /\ cmd = "TRANSFER_TO_HOST_2D" THEN framebuffer ELSE device.host,
                            shown |-> IF ok /\ cmd = "RESOURCE_FLUSH" THEN device.host ELSE device.shown]
    /\ UNCHANGED <<driver_state, next_buffer_index, request, framebuffer, timer, pc>>

Next == Interrupt \/ Pop \/ Timer \/ Tick \/ Device
Spec == Init /\ [][Next]_vars

-----------------------------------------------------------------------------
Pending == (ctrlq.avail.index - ctrlq.seen) % INDEX_MOD     \* commands the device has not taken
Answered == Unpopped(ctrlq)                                 \* answers the driver has not popped

\* At most one command is outstanding, and in the states that wait for an answer
\* only: no answer can come that handle_ok_nodata calls unexpected, the result of
\* virtq_push may be ignored, and no buffer is used again before its answer is read.
OneCommand ==
    /\ Owned(ctrlq) /\ Pending + Len(Answered) <= 1
    /\ driver_state = "DISPLAY_ENABLED" => Pending = 0 /\ Answered = <<>>
    /\ \A i \in DOMAIN Answered :
          response[ctrlq.descs[Chain(ctrlq, Answered[i])[2]].addr] = "OK_NODATA" => driver_state # "LOOKING_FOR_DISPLAY"

\* The device gets no command before it has carried out those that it builds on.
CommandOrder ==
    LET order == <<"GET_DISPLAY_INFO", "RESOURCE_CREATE_2D", "RESOURCE_ATTACH_BACKING", "SET_SCANOUT",
                   "TRANSFER_TO_HOST_2D", "RESOURCE_FLUSH">>
    IN  Waiting(ctrlq) => \A i, j \in DOMAIN order :
            i < j /\ order[j] = request[NextAddrs(ctrlq)[1]] => order[i] \in device.done

\* Commands are given one at a time and in the order of the specification.
CommandsRight == OneCommand /\ CommandOrder
=============================================================================
