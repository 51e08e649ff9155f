----------------------------- MODULE PaService -----------------------------
(* The PA data service of the broadcast source: the UART receive interrupt,    *)
(* the system work queue that runs both of the service's handlers, the 250 ms  *)
(* one-shot timer, the BLE periodic-advertising adapter, the button thread     *)
(* that writes to the same adapter, main()'s start-up and the controller that  *)
(* transmits periodic advertising (PA) events.                                 *)
(*                                                                             *)
(* The interrupt may run between any two steps; the work queue is cooperative, *)
(* so other threads run only where a handler blocks, in the call into the      *)
(* Bluetooth host. A handler is therefore one step up to each such point.      *)
EXTENDS PaDataManager, FiniteSets

CONSTANTS
  Frames,        \* the frames the PC may send, as byte sequences
  PcWaits,       \* which answers the PC waits for: "both", "accepted", "none"
  MaxFrames,     \* bound: frames the PC sends
  MaxPresses,    \* bound: presses of the ACTION button
  ONESHOT,       \* the timer's 250 ms, in ticks
  PA_INT_MIN,    \* the PA interval, in ticks
  PA_INT_MAX,
  TestData,      \* the payload "TESTn" the button handler sends
  AdvInfoId,     \* what bt_le_ext_adv_get_info() reports as id
  BaseOverhead   \* bytes of the BASE AD element, header included

ASSUME ServiceAssumption ==
  /\ Frames \subseteq Seq(Bytes)
  /\ \A f \in Frames : Len(f) >= 2 /\ f[1] + 1 = Len(f)
  /\ MaxFrames \in Nat /\ MaxPresses \in Nat
  /\ PcWaits \in {"both", "accepted", "none"}
  /\ ONESHOT \in Nat \ {0}
  /\ PA_INT_MIN \in Nat \ {0} /\ PA_INT_MAX \in Nat /\ PA_INT_MIN <= PA_INT_MAX
  /\ TestData \in Seq(Bytes)
  /\ AdvInfoId \in Bytes
  /\ BaseOverhead \in 0 .. (BYTE - 3)

OFF == -1
NoPayload == <<-1>>      \* no vendor-specific element

VARIABLES
  rx_frame, rx_frame_len,  \* the UART adapter's complete frame, shared with its ISR
  workq,                   \* pending items of the system work queue
  wq_pc, req,              \* what its thread runs, and the request on its stack
  pa_ctx,                  \* the data manager's context
  timer,                   \* ticks left of the one-shot timer, or OFF
  main_pc, base_count, ext_adv,      \* start-up, and the adapter fields it fills
  combined,                \* the adapter's composed PA data
  pa_data, pa_clock,       \* the controller: its PA data, ticks since its last event
  btn_pc, presses,         \* the button adapter's thread
  pc_state, sent,          \* the PC
  log,                     \* every frame sent to the PC
  aired                    \* payloads transmitted since the last accepted set_data

uartVars == <<rx_frame, rx_frame_len>>
wqVars   == <<workq, wq_pc, req>>
mainVars == <<main_pc, base_count, ext_adv>>
ctlVars  == <<pa_data, pa_clock, aired>>
btnVars  == <<btn_pc, presses>>
pcVars   == <<pc_state, sent, log>>

vars == <<uartVars, wqVars, pa_ctx, timer, mainVars, combined, ctlVars, btnVars, pcVars>>

Init ==
  /\ rx_frame = << >> /\ rx_frame_len = 0
  /\ workq = << >> /\ wq_pc = "idle" /\ req = [sid |-> 0, data_length |-> 0]
  /\ pa_ctx = InitContext
  /\ timer = OFF
  /\ main_pc = "service_ready" /\ base_count = 0 /\ ext_adv = FALSE
  /\ combined = [base |-> FALSE, vs |-> NoPayload]
  /\ pa_data = [base |-> FALSE, vs |-> NoPayload] /\ pa_clock = 0 /\ aired = {}
  /\ btn_pc = "wait" /\ presses = 0
  /\ pc_state = "ready" /\ sent = << >> /\ log = << >>

-----------------------------------------------------------------------------
(* Kernel services *)

\* k_work_submit(): an item that is already queued stays queued once.
WorkSubmit(item) ==
  workq' = IF \E i \in 1 .. Len(workq) : workq[i] = item THEN workq
           ELSE Append(workq, item)

\* The PC after it has received m.
PcAfter(m) ==
  IF m[2] # DATA_SEND_RSP THEN "ready"
  ELSE IF PcWaits = "both" \/ m[3] = PA_RESULT_SUCCESS THEN "completion"
  ELSE "ready"

\* uart->send(): polls the bytes out, so the frame is sent when it returns.
UartSend(m) == /\ log' = Append(log, m)
               /\ pc_state' = PcAfter(m)
               /\ UNCHANGED sent

-----------------------------------------------------------------------------
(* The PC and the receive interrupt *)

\* The last byte of a frame arrives: the ISR copies it over the previous one and
\* submits the work, whether or not the previous frame has been handled.
UartIsr(f) ==
  /\ Len(sent) < MaxFrames
  /\ PcWaits # "none" => pc_state = "ready"
  /\ rx_frame' = f \o SubSeq(rx_frame, Len(f) + 1, Len(rx_frame))
  /\ rx_frame_len' = Len(f)
  /\ WorkSubmit("rx_work")
  /\ pc_state' = "response"
  /\ sent' = Append(sent, f)
  /\ UNCHANGED <<wq_pc, req, pa_ctx, timer, mainVars, combined, ctlVars, btnVars, log>>

-----------------------------------------------------------------------------
(* The system work queue *)

\* The queue's thread takes the next item and enters its handler.
WorkqTake ==
  /\ wq_pc = "idle" /\ workq # << >>
  /\ wq_pc' = Head(workq) /\ workq' = Tail(workq)
  /\ UNCHANGED <<uartVars, req, pa_ctx, timer, mainVars, combined, ctlVars, btnVars, pcVars>>

\* rx_work_handler() passes the shared frame; a parse error is only logged.
ParseError ==
  /\ wq_pc = "rx_work"
  /\ ParseResult(rx_frame, rx_frame_len) # 0
  /\ wq_pc' = "idle"
  /\ UNCHANGED <<uartVars, workq, req, pa_ctx, timer, mainVars, combined, ctlVars,
                 btnVars, pcVars>>

\* adapter_get_status(): BASE and the header of the vendor-specific element.
AdvertisedSids      == IF ext_adv THEN <<AdvInfoId>> ELSE << >>
AdvertisedAvailable ==
  IF ext_adv
  THEN IF BaseOverhead + 2 >= PA_MAX_DATA_SIZE THEN <<0>>
       ELSE <<PA_MAX_DATA_SIZE - (BaseOverhead + 2)>>
  ELSE << >>

HandleStatusGetReq ==
  /\ wq_pc = "rx_work"
  /\ ParseResult(rx_frame, rx_frame_len) = 0
  /\ OpCode(rx_frame) = STATUS_GET_REQ
  /\ UartSend(StatusGetRsp(AdvertisedSids, AdvertisedAvailable))
  /\ wq_pc' = "idle"
  /\ UNCHANGED <<uartVars, workq, req, pa_ctx, timer, mainVars, combined, ctlVars, btnVars>>

\* pa_cmd_parse() has read the lengths; the payload is still to be copied.
ParseDataSendReq ==
  /\ wq_pc = "rx_work"
  /\ ParseResult(rx_frame, rx_frame_len) = 0
  /\ OpCode(rx_frame) = DATA_SEND_REQ
  /\ req' = [sid |-> AdvSid(rx_frame), data_length |-> DataLength(rx_frame)]
  /\ wq_pc' = "copy"
  /\ UNCHANGED <<uartVars, workq, pa_ctx, timer, mainVars, combined, ctlVars, btnVars, pcVars>>

\* Mutant: the copy starts at the length byte.
CopiedFromLength == SubSeq(rx_frame, 4, 3 + req.data_length)

\* The bytes copied now, which may be those of a later frame.
Copied == Payload(rx_frame, req.data_length)

RefusalOf(data) ==
  IF ~ext_adv THEN PA_RESULT_NOT_READY ELSE SubmitResult(pa_ctx, data)

\* handle_data_send_req(): not ready, busy or too large.
RefuseDataSendReq ==
  /\ wq_pc = "copy"
  /\ RefusalOf(Copied) # PA_RESULT_SUCCESS
  /\ UartSend(DataSendRsp(RefusalOf(Copied)))
  /\ wq_pc' = "idle"
  /\ UNCHANGED <<uartVars, workq, req, pa_ctx, timer, mainVars, combined, ctlVars, btnVars>>

\* Mutant: the payload of the last call stays in place.
ComposeStale(data) == [base |-> base_count > 0, vs |-> combined.vs]

\* Mutant: BASE is taken to persist in the controller.
ComposeWithoutBase(data) == [base |-> FALSE, vs |-> data]

\* adapter_set_data() up to the call into the host: BASE, then the payload.
Compose(data) == [base |-> base_count > 0, vs |-> data]

\* handle_data_send_req(): submit, then set_data up to the host call.
SubmitDataSendReq ==
  /\ wq_pc = "copy"
  /\ RefusalOf(Copied) = PA_RESULT_SUCCESS
  /\ pa_ctx' = Submit(pa_ctx, req.sid, Copied)
  /\ combined' = Compose(Copied)
  /\ wq_pc' = "set_data"
  /\ UNCHANGED <<uartVars, workq, req, timer, mainVars, ctlVars, btnVars, pcVars>>

\* bt_le_per_adv_set_data() returns 0: arm the timer, then answer SUCCESS.
SetDataOk ==
  /\ wq_pc = "set_data"
  /\ pa_data' = combined /\ aired' = {}
  /\ timer' = ONESHOT
  /\ UartSend(DataSendRsp(PA_RESULT_SUCCESS))
  /\ wq_pc' = "idle"
  /\ UNCHANGED <<uartVars, workq, req, pa_ctx, mainVars, combined, pa_clock, btnVars>>

\* Mutant: the failure is not answered.
SetDataFailsUnanswered ==
  /\ wq_pc = "set_data"
  /\ pa_ctx' = Reset(pa_ctx)
  /\ wq_pc' = "idle"
  /\ UNCHANGED <<uartVars, workq, req, timer, mainVars, combined, ctlVars, btnVars, pcVars>>

\* Mutant: the manager stays PENDING.
SetDataFailsPending ==
  /\ wq_pc = "set_data"
  /\ UartSend(DataSendRsp(PA_RESULT_NOT_READY))
  /\ wq_pc' = "idle"
  /\ UNCHANGED <<uartVars, workq, req, pa_ctx, timer, mainVars, combined, ctlVars, btnVars>>

\* bt_le_per_adv_set_data() fails: the manager is reset, the answer is NOT_READY.
SetDataFails ==
  /\ wq_pc = "set_data"
  /\ pa_ctx' = Reset(pa_ctx)
  /\ UartSend(DataSendRsp(PA_RESULT_NOT_READY))
  /\ wq_pc' = "idle"
  /\ UNCHANGED <<uartVars, workq, req, timer, mainVars, combined, ctlVars, btnVars>>

\* pa_service_on_pa_interval(), run from timer_work: COMPLETE lasts only inside it.
ServiceOnPaInterval ==
  /\ wq_pc = "timer_work"
  /\ IF IntervalTransitions(pa_ctx)
     THEN /\ UartSend(DataSendComplete)
          /\ pa_ctx' = Reset(OnPaInterval(pa_ctx))
     ELSE UNCHANGED <<pa_ctx, pcVars>>
  /\ wq_pc' = "idle"
  /\ UNCHANGED <<uartVars, workq, req, timer, mainVars, combined, ctlVars, btnVars>>

-----------------------------------------------------------------------------
(* Time: the one-shot timer and the controller's PA events *)

\* The expiry ISR and the PA event are not late: time waits for them.
Tick ==
  /\ timer # 0
  /\ ext_adv => pa_clock < PA_INT_MAX
  /\ timer' = IF timer = OFF THEN OFF ELSE timer - 1
  /\ pa_clock' = IF ext_adv THEN pa_clock + 1 ELSE pa_clock
  /\ timer # OFF \/ ext_adv
  /\ UNCHANGED <<uartVars, wqVars, pa_ctx, mainVars, combined, pa_data, aired, btnVars, pcVars>>

\* Mutant: an expiry that falls into a handler is dropped.
TimerExpiryWhenIdle ==
  /\ timer = 0
  /\ timer' = OFF
  /\ IF wq_pc = "idle" THEN WorkSubmit("timer_work") ELSE UNCHANGED workq
  /\ UNCHANGED <<uartVars, wq_pc, req, pa_ctx, mainVars, combined, ctlVars, btnVars, pcVars>>

\* timer_expiry_fn()
TimerExpiry ==
  /\ timer = 0
  /\ timer' = OFF
  /\ WorkSubmit("timer_work")
  /\ UNCHANGED <<uartVars, wq_pc, req, pa_ctx, mainVars, combined, ctlVars, btnVars, pcVars>>

\* The controller transmits its PA data once per interval.
PaEvent ==
  /\ ext_adv /\ pa_clock >= PA_INT_MIN
  /\ pa_clock' = 0
  /\ aired' = aired \cup {pa_data.vs}
  /\ UNCHANGED <<uartVars, wqVars, pa_ctx, timer, mainVars, combined, pa_data, btnVars, pcVars>>

-----------------------------------------------------------------------------
(* main() and the advertising event, and the button thread *)

\* zephyr_ble_pa_adapter_set_base_per_adv(), before advertising is started.
MainSetBase ==
  /\ main_pc = "service_ready"
  /\ base_count' = 1
  /\ main_pc' = "base_set"
  /\ UNCHANGED <<uartVars, wqVars, pa_ctx, timer, ext_adv, combined, ctlVars, btnVars, pcVars>>

\* Advertising with BASE alone has started: bt_mgmt_evt_handler() runs.
ExtAdvWithPaReady ==
  /\ main_pc = "base_set"
  /\ pa_data' = [base |-> TRUE, vs |-> NoPayload]
  /\ ext_adv' = TRUE
  /\ main_pc' = "advertising"
  /\ UNCHANGED <<uartVars, wqVars, pa_ctx, timer, base_count, combined, pa_clock, aired,
                 btnVars, pcVars>>

\* button_event_handler(PA_BUTTON_ACTION): set_data without the data manager.
ButtonAction ==
  /\ btn_pc = "wait" /\ presses < MaxPresses
  /\ presses' = presses + 1
  /\ IF ext_adv
     THEN /\ combined' = Compose(TestData)
          /\ btn_pc' = "set_data"
     ELSE UNCHANGED <<combined, btn_pc>>
  /\ UNCHANGED <<uartVars, wqVars, pa_ctx, timer, mainVars, ctlVars, pcVars>>

\* The host call of that thread, which sends what "combined" holds by then.
ButtonSetData ==
  /\ btn_pc = "set_data"
  /\ btn_pc' = "wait"
  /\ pa_data' \in {combined, pa_data}     \* it may fail
  /\ UNCHANGED <<uartVars, wqVars, pa_ctx, timer, mainVars, combined, pa_clock, aired,
                 presses, pcVars>>

-----------------------------------------------------------------------------
RxHandler == \/ ParseError \/ HandleStatusGetReq \/ ParseDataSendReq
             \/ RefuseDataSendReq \/ SubmitDataSendReq \/ SetDataOk \/ SetDataFails

WorkqThread == WorkqTake \/ RxHandler \/ ServiceOnPaInterval

Next ==
  \/ \E f \in Frames : UartIsr(f)
  \/ WorkqThread
  \/ Tick \/ TimerExpiry \/ PaEvent
  \/ MainSetBase \/ ExtAdvWithPaReady
  \/ ButtonAction \/ ButtonSetData

Spec == Init /\ [][Next]_vars

\* The work queue runs while it has work, time passes and interrupts fire. The PC
\* need not send anything and nobody need press a button.
Fairness ==
  /\ WF_vars(WorkqThread)
  /\ WF_vars(Tick) /\ WF_vars(TimerExpiry) /\ WF_vars(PaEvent)

FairSpec == Spec /\ Fairness

-----------------------------------------------------------------------------
(* Properties *)

Payloads == Seq(Bytes) \cup {NoPayload}

TypeOK ==
  /\ rx_frame \in Seq(Bytes) /\ rx_frame_len \in 0 .. Len(rx_frame)
  /\ workq \in Seq({"rx_work", "timer_work"})
  /\ wq_pc \in {"idle", "rx_work", "timer_work", "copy", "set_data"}
  /\ req \in [sid : Bytes, data_length : Bytes]
  /\ pa_ctx \in [state : {PA_STATE_IDLE, PA_STATE_PENDING}, current_sid : Bytes,
                 data : Seq(Bytes)]
  /\ timer \in {OFF} \cup 0 .. ONESHOT
  /\ main_pc \in {"service_ready", "base_set", "advertising"}
  /\ base_count \in 0 .. 1 /\ ext_adv \in BOOLEAN
  /\ combined \in [base : BOOLEAN, vs : Payloads]
  /\ pa_data \in [base : BOOLEAN, vs : Payloads]
  /\ pa_clock \in 0 .. PA_INT_MAX /\ aired \subseteq Payloads
  /\ btn_pc \in {"wait", "set_data"} /\ presses \in 0 .. MaxPresses
  /\ pc_state \in {"ready", "response", "completion"}
  /\ sent \in Seq(Frames) /\ log \in Seq(Seq(Nat))

\* A request has been answered SUCCESS and not yet completed.
Open == pa_ctx.state = PA_STATE_PENDING /\ wq_pc # "set_data"

Queued(item) == \E i \in 1 .. Len(workq) : workq[i] = item

\* An accepted request has exactly one completion on its way, in the timer, in the
\* work queue or in its handler; and none is on its way without one. Were it lost,
\* every later request would be answered BUSY; were there two, the second would
\* complete somebody else's request early.
TimerArmed   == timer # OFF
TimerQueued  == Queued("timer_work")
TimerRunning == wq_pc = "timer_work"

OneCompletionUnderWay ==
  /\ Open <=> TimerArmed \/ TimerQueued \/ TimerRunning
  /\ ~(TimerArmed /\ TimerQueued) /\ ~(TimerArmed /\ TimerRunning)
  /\ ~(TimerQueued /\ TimerRunning)

\* set_data re-sends BASE with every payload: PA never goes out without it.
BaseInEveryPaPacket == ext_adv => pa_data.base

\* Every accepted request was sent by the PC as a whole: identifier and data of
\* one frame, though parser and ISR share the frame buffer.
AcceptedAsSent ==
  pa_ctx.state = PA_STATE_PENDING =>
    \E i \in 1 .. Len(sent) :
      /\ OpCode(sent[i]) = DATA_SEND_REQ
      /\ AdvSid(sent[i]) = pa_ctx.current_sid
      /\ Payload(sent[i], DataLength(sent[i])) = pa_ctx.data

Completes == log' # log /\ log'[Len(log')] = DataSendComplete

\* Completion tells the PC that its data has been broadcast (doc/architecture.md:
\* "notifies that the PA interval has passed and the data was broadcast").
CompleteMeansAired == [][Completes => pa_ctx.data \in aired]_vars

\* Every frame the service sends is one the protocol allows next: no second
\* acceptance while a request is open, no completion without one, BUSY exactly
\* while one is open.
Protocol == INSTANCE PaProtocol WITH open <- Open
ImplementsProtocol == Protocol!Spec

\* Every accepted request is completed, whatever the PC and the button do.
AcceptedCompletes == Protocol!Completion

\* A PC that waits for its answers always gets to send again.
PcIsServed == []<>(pc_state = "ready")
=============================================================================
