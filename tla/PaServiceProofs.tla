-------------------------- MODULE PaServiceProofs --------------------------
(* Theorems about PaService for every value of its constants: type             *)
(* correctness, that an accepted request has exactly one completion under way, *)
(* that the service implements PaProtocol, that BASE is in every PA packet,    *)
(* that a completion means that the data was aired, that what is accepted is   *)
(* what the PC sent, and that the PC waits for nothing that is not on its way. *)
EXTENDS PaService, PaCmdParserProofs, SequenceTheorems, TLAPS

-----------------------------------------------------------------------------
(* What the helpers return *)

LEMMA WorkSubmitType ==
  ASSUME NEW item \in {"rx_work", "timer_work"},
         workq \in Seq({"rx_work", "timer_work"}), WorkSubmit(item)
  PROVE  workq' \in Seq({"rx_work", "timer_work"})
  BY DEF WorkSubmit

\* The status report is a byte string whose second byte is its OpCode.
LEMMA StatusGetRspType ==
  ASSUME ext_adv \in BOOLEAN
  PROVE  LET m == StatusGetRsp(AdvertisedSids, AdvertisedAvailable)
         IN  m \in Seq(Nat) /\ Len(m) >= 2 /\ m[2] = STATUS_GET_RSP
<1> DEFINE head == <<2 + 2 * Len(AdvertisedSids), STATUS_GET_RSP, Len(AdvertisedSids)>>
<1>1. AdvertisedSids \in Seq(Nat) /\ AdvertisedAvailable \in Seq(Nat)
  BY ServiceAssumption, ParserAssumption DEF Bytes, AdvertisedSids, AdvertisedAvailable
<1>2. head \in Seq(Nat) /\ Len(head) = 3 /\ head[2] = STATUS_GET_RSP
  BY <1>1 DEF STATUS_GET_RSP
<1>3. /\ head \o AdvertisedSids \in Seq(Nat)
      /\ Len(head \o AdvertisedSids) >= 3
      /\ (head \o AdvertisedSids)[2] = STATUS_GET_RSP
  BY <1>1, <1>2, ConcatProperties
<1>4. LET m == (head \o AdvertisedSids) \o AdvertisedAvailable
      IN  m \in Seq(Nat) /\ Len(m) >= 2 /\ m[2] = STATUS_GET_RSP
  BY <1>1, <1>3, ConcatProperties
<1> QED BY <1>4 DEF StatusGetRsp

LEMMA UartSendType ==
  ASSUME NEW m \in Seq(Nat), log \in Seq(Seq(Nat)), UartSend(m)
  PROVE  /\ log' \in Seq(Seq(Nat)) /\ log' = Append(log, m)
         /\ pc_state' \in {"ready", "response", "completion"}
         /\ sent' = sent
  BY DEF UartSend, PcAfter

-----------------------------------------------------------------------------
(* Type correctness *)

\* Between parsing and copying, the announced payload is inside the array: the ISR
\* may replace the frame, but the array only grows.
CopyInBounds == wq_pc = "copy" => 4 + req.data_length <= Len(rx_frame)

TypeInv == TypeOK /\ CopyInBounds

LEMMA TypeInit == Init => TypeInv
<1> SUFFICES ASSUME Init PROVE TypeInv
  OBVIOUS
<1>1. 0 \in Bytes /\ << >> \in Seq(Bytes) /\ NoPayload \in Payloads
  BY ParserAssumption DEF Bytes, Payloads
<1>2. pa_ctx \in [state : {PA_STATE_IDLE, PA_STATE_PENDING}, current_sid : Bytes,
                  data : Seq(Bytes)]
  BY <1>1 DEF Init, InitContext
<1>3. /\ rx_frame \in Seq(Bytes) /\ rx_frame_len \in 0 .. Len(rx_frame)
      /\ req \in [sid : Bytes, data_length : Bytes]
  BY <1>1 DEF Init
<1>4. /\ combined \in [base : BOOLEAN, vs : Payloads]
      /\ pa_data \in [base : BOOLEAN, vs : Payloads]
  BY <1>1 DEF Init
<1>5. /\ pa_clock \in 0 .. PA_INT_MAX /\ aired \subseteq Payloads
      /\ presses \in 0 .. MaxPresses /\ timer \in {OFF} \cup 0 .. ONESHOT
  BY ServiceAssumption DEF Init
<1>6. sent \in Seq(Frames) /\ log \in Seq(Seq(Nat))
      /\ workq \in Seq({"rx_work", "timer_work"})
  BY DEF Init
<1>7. /\ wq_pc \in {"idle", "rx_work", "timer_work", "copy", "set_data"} /\ wq_pc # "copy"
      /\ main_pc \in {"service_ready", "base_set", "advertising"}
      /\ base_count \in 0 .. 1
      /\ btn_pc \in {"wait", "set_data"}
      /\ pc_state \in {"ready", "response", "completion"}
  BY DEF Init
<1>8. ext_adv \in BOOLEAN
  BY Zenon DEF Init
<1> QED BY <1>2, <1>3, <1>4, <1>5, <1>6, <1>7, <1>8 DEF TypeInv, TypeOK, CopyInBounds

\* The steps of the request handler.
LEMMA TypeUartIsr ==
  ASSUME TypeInv, NEW f \in Frames, UartIsr(f) PROVE TypeInv'
<1> USE DEF TypeInv, TypeOK
<1>1. f \in Seq(Bytes) /\ Len(f) \in Nat
  BY ServiceAssumption DEF Bytes
<1>2. /\ rx_frame' \in Seq(Bytes) /\ Len(f) <= Len(rx_frame')
      /\ Len(rx_frame) <= Len(rx_frame')
  BY <1>1, OverlayType DEF UartIsr
<1>3. rx_frame_len' \in 0 .. Len(rx_frame')
  BY <1>1, <1>2 DEF UartIsr
<1>4. workq' \in Seq({"rx_work", "timer_work"})
  BY WorkSubmitType DEF UartIsr
<1>5. sent' \in Seq(Frames)
  BY DEF UartIsr
<1>6. CopyInBounds'
  <2>1. wq_pc' = wq_pc /\ req' = req
    BY DEF UartIsr
  <2>2. req.data_length \in Nat /\ Len(rx_frame) \in Nat /\ Len(rx_frame') \in Nat
    <3>1. Len(rx_frame) \in Nat /\ Len(rx_frame') \in Nat
      BY <1>2, LenProperties
    <3>2. req.data_length \in Bytes
      OBVIOUS
    <3> QED BY <3>1, <3>2, BytesAreNaturals
  <2> QED BY <1>2, <2>1, <2>2 DEF CopyInBounds
<1> QED BY <1>2, <1>3, <1>4, <1>5, <1>6 DEF UartIsr, mainVars, ctlVars, btnVars

LEMMA TypeParseDataSendReq ==
  ASSUME TypeInv, ParseDataSendReq PROVE TypeInv'
<1> USE DEF TypeInv, TypeOK
<1>1. /\ 4 + DataLength(rx_frame) <= rx_frame_len
      /\ AdvSid(rx_frame) \in Bytes /\ DataLength(rx_frame) \in 0 .. PA_MAX_DATA_SIZE
  BY ParsedDataInFrame DEF ParseDataSendReq
<1>2. req' \in [sid : Bytes, data_length : Bytes]
  BY <1>1, ParserAssumption DEF ParseDataSendReq, Bytes
<1>3. req'.data_length = DataLength(rx_frame) /\ rx_frame' = rx_frame
  BY DEF ParseDataSendReq, uartVars
<1>4. rx_frame_len <= Len(rx_frame) /\ Len(rx_frame) \in Nat /\ rx_frame_len \in Nat
  OBVIOUS
<1>5. DataLength(rx_frame) \in Nat
  BY <1>1, ParserAssumption
<1>6. CopyInBounds'
  BY <1>1, <1>3, <1>4, <1>5 DEF CopyInBounds
<1> QED BY <1>2, <1>6 DEF ParseDataSendReq, uartVars, mainVars, ctlVars, btnVars, pcVars

LEMMA CopiedType ==
  ASSUME TypeInv, wq_pc = "copy" PROVE Copied \in Seq(Bytes)
<1>1. req.data_length \in Nat
  BY BytesAreNaturals DEF TypeInv, TypeOK
<1> QED BY <1>1, PayloadType DEF TypeInv, TypeOK, CopyInBounds, Copied

LEMMA RefusalType == RefusalOf(Copied) \in Results
  BY DEF RefusalOf, SubmitResult, Results

LEMMA TypeSubmit ==
  ASSUME TypeInv, SubmitDataSendReq PROVE TypeInv'
<1> USE DEF TypeInv, TypeOK
<1>1. Copied \in Seq(Bytes)
  BY CopiedType DEF SubmitDataSendReq
<1>2. pa_ctx' \in [state : {PA_STATE_IDLE, PA_STATE_PENDING}, current_sid : Bytes,
                   data : Seq(Bytes)]
  BY <1>1 DEF SubmitDataSendReq, Submit
<1>3. combined' \in [base : BOOLEAN, vs : Payloads]
  BY <1>1 DEF SubmitDataSendReq, Compose, Payloads
<1>4. CopyInBounds'
  BY DEF SubmitDataSendReq, CopyInBounds
<1> QED BY <1>2, <1>3, <1>4
        DEF SubmitDataSendReq, uartVars, mainVars, ctlVars, btnVars, pcVars

LEMMA ResetType ==
  ASSUME TypeInv
  PROVE  /\ Reset(pa_ctx) \in [state : {PA_STATE_IDLE, PA_STATE_PENDING},
                               current_sid : Bytes, data : Seq(Bytes)]
         /\ Reset(pa_ctx).state = PA_STATE_IDLE
         /\ Reset(OnPaInterval(pa_ctx)) = Reset(pa_ctx)
<1>1. << >> \in Seq(Bytes)
  OBVIOUS
<1>2. pa_ctx \in [state : {PA_STATE_IDLE, PA_STATE_PENDING}, current_sid : Bytes,
                  data : Seq(Bytes)]
  BY DEF TypeInv, TypeOK
<1>3. Reset(pa_ctx) = [state |-> PA_STATE_IDLE, current_sid |-> pa_ctx.current_sid,
                       data |-> << >>]
  BY <1>2 DEF Reset
<1>4. Reset(OnPaInterval(pa_ctx)) = Reset(pa_ctx)
  BY <1>2, <1>3 DEF Reset, OnPaInterval
<1> QED BY <1>1, <1>2, <1>3, <1>4

LEMMA TypeSetDataOk ==
  ASSUME TypeInv, SetDataOk PROVE TypeInv'
<1> USE DEF TypeInv, TypeOK
<1>1. log' \in Seq(Seq(Nat)) /\ pc_state' \in {"ready", "response", "completion"}
      /\ sent' = sent
  BY DataSendRspType, UartSendType DEF SetDataOk, Results
<1>2. timer' \in {OFF} \cup 0 .. ONESHOT
  BY ServiceAssumption DEF SetDataOk
<1>3. CopyInBounds'
  BY DEF SetDataOk, CopyInBounds
<1> QED BY <1>1, <1>2, <1>3 DEF SetDataOk, uartVars, mainVars, btnVars

LEMMA TypeSetDataFails ==
  ASSUME TypeInv, SetDataFails PROVE TypeInv'
<1> USE DEF TypeInv, TypeOK
<1>1. log' \in Seq(Seq(Nat)) /\ pc_state' \in {"ready", "response", "completion"}
      /\ sent' = sent
  BY DataSendRspType, UartSendType DEF SetDataFails, Results
<1>2. CopyInBounds'
  BY DEF SetDataFails, CopyInBounds
<1> QED BY <1>1, <1>2, ResetType
        DEF SetDataFails, uartVars, mainVars, ctlVars, btnVars

LEMMA TypeRespond ==
  ASSUME TypeInv, HandleStatusGetReq \/ RefuseDataSendReq PROVE TypeInv'
<1> USE DEF TypeInv, TypeOK
<1>1. PICK m \in Seq(Nat) : UartSend(m)
  <2>1. CASE HandleStatusGetReq
    BY <2>1, StatusGetRspType DEF HandleStatusGetReq
  <2>2. CASE RefuseDataSendReq
    BY <2>2, RefusalType, DataSendRspType DEF RefuseDataSendReq
  <2> QED BY <2>1, <2>2
<1>2. log' \in Seq(Seq(Nat)) /\ pc_state' \in {"ready", "response", "completion"}
      /\ sent' = sent
  BY <1>1, UartSendType
<1>3. wq_pc' = "idle"
      /\ UNCHANGED <<uartVars, workq, req, pa_ctx, timer, mainVars, combined, ctlVars, btnVars>>
  BY DEF HandleStatusGetReq, RefuseDataSendReq
<1> QED BY <1>2, <1>3 DEF CopyInBounds, uartVars, mainVars, ctlVars, btnVars

LEMMA TypeOnPaInterval ==
  ASSUME TypeInv, ServiceOnPaInterval PROVE TypeInv'
<1> USE DEF TypeInv, TypeOK
<1>1. DataSendComplete \in Seq(Nat)
  BY DEF DataSendComplete, DATA_SEND_COMPLETE
<1>2. /\ log' \in Seq(Seq(Nat)) /\ pc_state' \in {"ready", "response", "completion"}
      /\ sent' = sent
  BY <1>1, UartSendType DEF ServiceOnPaInterval, pcVars
<1>3. pa_ctx' \in [state : {PA_STATE_IDLE, PA_STATE_PENDING}, current_sid : Bytes,
                   data : Seq(Bytes)]
  BY ResetType DEF ServiceOnPaInterval
<1>4. wq_pc' = "idle"
      /\ UNCHANGED <<uartVars, workq, req, timer, mainVars, combined, ctlVars, btnVars>>
  BY DEF ServiceOnPaInterval
<1> QED BY <1>2, <1>3, <1>4 DEF CopyInBounds, uartVars, mainVars, ctlVars, btnVars

\* The kernel's steps, time, and the steps of the other threads.
LEMMA TypeOthers ==
  ASSUME TypeInv,
         \/ WorkqTake \/ ParseError \/ Tick \/ TimerExpiry \/ PaEvent
         \/ MainSetBase \/ ExtAdvWithPaReady \/ ButtonAction \/ ButtonSetData
         \/ UNCHANGED vars
  PROVE  TypeInv'
<1> USE DEF TypeInv, TypeOK, CopyInBounds, uartVars, wqVars, mainVars, ctlVars, btnVars, pcVars
<1>1. CASE WorkqTake
  <2>1. /\ Head(workq) \in {"rx_work", "timer_work"}
        /\ Tail(workq) \in Seq({"rx_work", "timer_work"})
    BY <1>1, HeadTailProperties DEF WorkqTake
  <2> QED BY <1>1, <2>1 DEF WorkqTake
<1>2. CASE ParseError
  BY <1>2 DEF ParseError
<1>3. CASE Tick
  <2>1. timer' \in {OFF} \cup 0 .. ONESHOT
    BY <1>3, ServiceAssumption DEF Tick, OFF
  <2>2. pa_clock' \in 0 .. PA_INT_MAX
    BY <1>3, ServiceAssumption DEF Tick
  <2> QED BY <1>3, <2>1, <2>2 DEF Tick
<1>4. CASE TimerExpiry
  <2>1. workq' \in Seq({"rx_work", "timer_work"})
    BY <1>4, WorkSubmitType DEF TimerExpiry
  <2> QED BY <1>4, <2>1 DEF TimerExpiry
<1>5. CASE PaEvent
  <2>1. pa_clock' \in 0 .. PA_INT_MAX /\ aired' \subseteq Payloads
    BY <1>5, ServiceAssumption DEF PaEvent
  <2> QED BY <1>5, <2>1 DEF PaEvent
<1>6. CASE MainSetBase
  BY <1>6 DEF MainSetBase
<1>7. CASE ExtAdvWithPaReady
  <2>1. pa_data' \in [base : BOOLEAN, vs : Payloads]
    BY <1>7 DEF ExtAdvWithPaReady, Payloads
  <2>2. ext_adv' \in BOOLEAN
    BY <1>7, Zenon DEF ExtAdvWithPaReady
  <2> QED BY <1>7, <2>1, <2>2 DEF ExtAdvWithPaReady
<1>8. CASE ButtonAction
  <2>1. combined' \in [base : BOOLEAN, vs : Payloads]
    <3>1. TestData \in Payloads
      BY ServiceAssumption DEF Payloads, Bytes
    <3>2. Compose(TestData) \in [base : BOOLEAN, vs : Payloads]
      BY <3>1 DEF Compose
    <3> QED BY <1>8, <3>2 DEF ButtonAction
  <2>2. presses' \in 0 .. MaxPresses /\ btn_pc' \in {"wait", "set_data"}
    BY <1>8, ServiceAssumption DEF ButtonAction
  <2> QED BY <1>8, <2>1, <2>2 DEF ButtonAction
<1>9. CASE ButtonSetData
  BY <1>9 DEF ButtonSetData
<1>10. CASE UNCHANGED vars
  BY <1>10 DEF vars
<1> QED BY <1>1, <1>2, <1>3, <1>4, <1>5, <1>6, <1>7, <1>8, <1>9, <1>10

LEMMA TypeStep == TypeInv /\ [Next]_vars => TypeInv'
<1> SUFFICES ASSUME TypeInv, [Next]_vars PROVE TypeInv'
  OBVIOUS
<1>1. CASE \E f \in Frames : UartIsr(f)
  BY <1>1, TypeUartIsr
<1>2. CASE RxHandler
  BY <1>2, TypeOthers, TypeRespond, TypeParseDataSendReq, TypeSubmit, TypeSetDataOk,
     TypeSetDataFails DEF RxHandler
<1>3. CASE ServiceOnPaInterval
  BY <1>3, TypeOnPaInterval
<1> QED BY <1>1, <1>2, <1>3, TypeOthers DEF Next, WorkqThread

\* Every variable keeps its type; in particular the request copied from the shared
\* frame is a byte string that lies inside the receive array, whatever the ISR
\* wrote over it between parsing and copying.
THEOREM TypeCorrect == Spec => []TypeOK
<1>1. Spec => []TypeInv
  BY TypeInit, TypeStep, PTL DEF Spec
<1>2. TypeInv => TypeOK
  BY DEF TypeInv
<1> QED BY <1>1, <1>2, PTL

-----------------------------------------------------------------------------
(* One completion under way for every accepted request *)

Once(item) ==
  \A i, j \in 1 .. Len(workq) : workq[i] = item /\ workq[j] = item => i = j

QueuedOnce == Once("timer_work")

\* What makes OneCompletionUnderWay inductive: the item is queued at most once, so
\* that taking it leaves none behind; a request in set_data is already PENDING; and
\* PENDING needs a ready adapter, which is never lost.
CompletionInv ==
  /\ OneCompletionUnderWay
  /\ QueuedOnce
  /\ wq_pc = "set_data" => pa_ctx.state = PA_STATE_PENDING
  /\ pa_ctx.state = PA_STATE_PENDING => ext_adv

\* k_work_submit() of one item, seen from any item of the queue.
LEMMA SubmitQueues ==
  ASSUME TypeInv, NEW item \in {"rx_work", "timer_work"}, WorkSubmit(item),
         NEW seen \in {"rx_work", "timer_work"}, Once(seen)
  PROVE  /\ Once(seen)'
         /\ Queued(seen)' <=> (Queued(seen) \/ item = seen)
<1>1. workq \in Seq({"rx_work", "timer_work"}) /\ Len(workq) \in Nat
  BY DEF TypeInv, TypeOK
<1>2. CASE Queued(item)
  BY <1>1, <1>2 DEF WorkSubmit, Queued, Once
<1>3. CASE ~Queued(item)
  <2>1. workq' = Append(workq, item)
    BY <1>3 DEF WorkSubmit, Queued
  <2>2. /\ Len(workq') = Len(workq) + 1
        /\ workq'[Len(workq) + 1] = item
        /\ \A i \in 1 .. Len(workq) : workq'[i] = workq[i]
    BY <1>1, <2>1
  <2>3. Once(seen)'
    BY <1>1, <1>3, <2>2 DEF Once, Queued
  <2>4. Queued(seen)' <=> (Queued(seen) \/ item = seen)
    BY <1>1, <2>2 DEF Queued
  <2> QED BY <2>3, <2>4
<1> QED BY <1>2, <1>3

\* The thread takes the first item.
LEMMA TakeDequeues ==
  ASSUME TypeInv, workq # << >>, workq' = Tail(workq),
         NEW seen \in {"rx_work", "timer_work"}, Once(seen)
  PROVE  /\ Once(seen)'
         /\ Head(workq) = seen => Queued(seen) /\ ~Queued(seen)'
         /\ Head(workq) # seen => (Queued(seen)' <=> Queued(seen))
<1>1. workq \in Seq({"rx_work", "timer_work"}) /\ Len(workq) \in Nat \ {0}
  BY DEF TypeInv, TypeOK
<1>2. /\ Len(workq') = Len(workq) - 1
      /\ \A i \in 1 .. Len(workq') : workq'[i] = workq[i + 1]
      /\ Head(workq) = workq[1]
  BY <1>1
<1>3. Once(seen)'
  <2> SUFFICES ASSUME NEW i \in 1 .. Len(workq'), NEW j \in 1 .. Len(workq'),
                      workq'[i] = seen, workq'[j] = seen
               PROVE  i = j
    BY DEF Once
  <2>1. i + 1 = j + 1
    BY <1>1, <1>2 DEF Once
  <2> QED BY <1>1, <1>2, <2>1
<1>4. ASSUME Head(workq) = seen PROVE Queued(seen) /\ ~Queued(seen)'
  <2>1. Queued(seen)
    BY <1>1, <1>2, <1>4 DEF Queued
  <2>2. ASSUME NEW i \in 1 .. Len(workq'), workq'[i] = seen PROVE FALSE
    <3>1. workq[i + 1] = seen /\ i + 1 \in 1 .. Len(workq) /\ 1 \in 1 .. Len(workq)
      BY <1>1, <1>2, <2>2
    <3>2. i + 1 = 1
      BY <1>2, <1>4, <3>1 DEF Once
    <3> QED BY <1>1, <1>2, <3>2
  <2> QED BY <2>1, <2>2 DEF Queued
<1>5. ASSUME Head(workq) # seen PROVE Queued(seen)' <=> Queued(seen)
  <2>1. ASSUME NEW i \in 1 .. Len(workq), workq[i] = seen
        PROVE  i - 1 \in 1 .. Len(workq') /\ workq'[i - 1] = seen
    BY <1>1, <1>2, <1>5, <2>1
  <2>2. ASSUME NEW i \in 1 .. Len(workq'), workq'[i] = seen
        PROVE  i + 1 \in 1 .. Len(workq) /\ workq[i + 1] = seen
    BY <1>1, <1>2, <2>2
  <2> QED BY <2>1, <2>2 DEF Queued
<1> QED BY <1>3, <1>4, <1>5

LEMMA CompletionInit == Init => CompletionInv
<1> SUFFICES ASSUME Init PROVE CompletionInv
  OBVIOUS
<1>1. pa_ctx.state = PA_STATE_IDLE /\ timer = OFF /\ workq = << >> /\ wq_pc = "idle"
  BY DEF Init, InitContext
<1> QED BY <1>1 DEF CompletionInv, OneCompletionUnderWay, QueuedOnce, Once, Open, TimerArmed,
     TimerQueued, TimerRunning, Queued, PA_STATE_IDLE, PA_STATE_PENDING

\* The invariant speaks of five variables; a step that leaves them, or keeps the
\* handler away from timer_work and set_data, leaves it alone.
LEMMA CompletionFrame ==
  ASSUME CompletionInv,
         UNCHANGED <<workq, timer, pa_ctx>>,
         \/ wq_pc' = wq_pc
         \/ wq_pc \in {"rx_work", "copy"} /\ wq_pc' \in {"idle", "copy"},
         ext_adv => ext_adv'
  PROVE  CompletionInv'
  BY DEF CompletionInv, OneCompletionUnderWay, QueuedOnce, Once, Open, TimerArmed, TimerQueued,
         TimerRunning, Queued

LEMMA CompletionStep == TypeInv /\ CompletionInv /\ [Next]_vars => CompletionInv'
<1> SUFFICES ASSUME TypeInv, CompletionInv, [Next]_vars PROVE CompletionInv'
  OBVIOUS
<1> USE DEF uartVars, wqVars, mainVars, ctlVars, btnVars, pcVars
<1>1. ASSUME NEW f \in Frames, UartIsr(f) PROVE CompletionInv'
  <2>1. QueuedOnce' /\ (TimerQueued' <=> TimerQueued)
    BY <1>1, SubmitQueues DEF UartIsr, CompletionInv, QueuedOnce, TimerQueued
  <2>2. UNCHANGED <<wq_pc, pa_ctx, timer, ext_adv>>
    BY <1>1 DEF UartIsr
  <2> QED BY <2>1, <2>2 DEF CompletionInv, OneCompletionUnderWay, Open, TimerArmed, TimerRunning
<1>2. CASE WorkqTake
  <2>1. /\ QueuedOnce'
        /\ Head(workq) = "timer_work" => TimerQueued /\ ~TimerQueued'
        /\ Head(workq) # "timer_work" => (TimerQueued' <=> TimerQueued)
    BY <1>2, TakeDequeues DEF WorkqTake, CompletionInv, QueuedOnce, TimerQueued
  <2>2. Head(workq) \in {"rx_work", "timer_work"}
    BY <1>2, HeadTailProperties DEF WorkqTake, TypeInv, TypeOK
  <2>3. /\ wq_pc = "idle" /\ wq_pc' = Head(workq)
        /\ UNCHANGED <<pa_ctx, timer, ext_adv>>
    BY <1>2 DEF WorkqTake
  <2> QED BY <2>1, <2>2, <2>3
          DEF CompletionInv, OneCompletionUnderWay, Open, TimerArmed, TimerRunning
<1>3. CASE ParseError
  BY <1>3, CompletionFrame DEF ParseError
<1>4. CASE HandleStatusGetReq
  BY <1>4, CompletionFrame DEF HandleStatusGetReq
<1>5. CASE ParseDataSendReq
  BY <1>5, CompletionFrame DEF ParseDataSendReq
<1>6. CASE RefuseDataSendReq
  BY <1>6, CompletionFrame DEF RefuseDataSendReq
<1>7. CASE SubmitDataSendReq
  <2>1. pa_ctx.state = PA_STATE_IDLE /\ pa_ctx'.state = PA_STATE_PENDING /\ ext_adv
    BY <1>7 DEF SubmitDataSendReq, RefusalOf, SubmitResult, Submit, PA_RESULT_SUCCESS,
                PA_RESULT_BUSY, PA_RESULT_NOT_READY, PA_RESULT_DATA_TOO_LARGE
  <2>2. wq_pc = "copy" /\ wq_pc' = "set_data" /\ UNCHANGED <<workq, timer, ext_adv>>
    BY <1>7 DEF SubmitDataSendReq
  <2> QED BY <2>1, <2>2 DEF CompletionInv, OneCompletionUnderWay, QueuedOnce, Once, Open, TimerArmed,
          TimerQueued, TimerRunning, Queued, PA_STATE_IDLE, PA_STATE_PENDING
<1>8. CASE SetDataOk
  <2>1. /\ wq_pc = "set_data" /\ wq_pc' = "idle" /\ timer' # OFF
        /\ UNCHANGED <<workq, pa_ctx, ext_adv>>
    BY <1>8, ServiceAssumption DEF SetDataOk, OFF
  <2> QED BY <2>1 DEF CompletionInv, OneCompletionUnderWay, QueuedOnce, Once, Open, TimerArmed,
          TimerQueued, TimerRunning, Queued
<1>9. CASE SetDataFails
  <2>1. wq_pc = "set_data" /\ wq_pc' = "idle" /\ UNCHANGED <<workq, timer, ext_adv>>
    BY <1>9 DEF SetDataFails
  <2>2. pa_ctx'.state = PA_STATE_IDLE
    BY <1>9, ResetType DEF SetDataFails
  <2> QED BY <2>1, <2>2 DEF CompletionInv, OneCompletionUnderWay, QueuedOnce, Once, Open, TimerArmed,
          TimerQueued, TimerRunning, Queued, PA_STATE_IDLE, PA_STATE_PENDING
<1>10. CASE ServiceOnPaInterval
  <2>1. /\ wq_pc = "timer_work" /\ wq_pc' = "idle"
        /\ UNCHANGED <<workq, timer, ext_adv>>
    BY <1>10 DEF ServiceOnPaInterval
  <2>2. pa_ctx.state = PA_STATE_PENDING
    BY <2>1 DEF CompletionInv, OneCompletionUnderWay, TimerRunning, Open
  <2>3. pa_ctx'.state = PA_STATE_IDLE
    BY <1>10, <2>2, ResetType DEF ServiceOnPaInterval, IntervalTransitions
  <2> QED BY <2>1, <2>3 DEF CompletionInv, OneCompletionUnderWay, QueuedOnce, Once, Open, TimerArmed,
          TimerQueued, TimerRunning, Queued, PA_STATE_IDLE, PA_STATE_PENDING
<1>11. CASE Tick
  <2>1. timer' # OFF <=> timer # OFF
    BY <1>11, ServiceAssumption DEF Tick, OFF, TypeInv, TypeOK
  <2>2. UNCHANGED <<workq, wq_pc, pa_ctx, ext_adv>>
    BY <1>11 DEF Tick
  <2> QED BY <2>1, <2>2 DEF CompletionInv, OneCompletionUnderWay, QueuedOnce, Once, Open, TimerArmed,
          TimerQueued, TimerRunning, Queued
<1>12. CASE TimerExpiry
  <2>1. QueuedOnce' /\ TimerQueued'
    BY <1>12, SubmitQueues DEF TimerExpiry, CompletionInv, QueuedOnce, TimerQueued
  <2>2. /\ timer # OFF /\ timer' = OFF
        /\ UNCHANGED <<wq_pc, pa_ctx, ext_adv>>
    BY <1>12 DEF TimerExpiry, OFF
  <2> QED BY <2>1, <2>2 DEF CompletionInv, OneCompletionUnderWay, Open, TimerArmed, TimerRunning
<1>13. CASE PaEvent
  BY <1>13, CompletionFrame DEF PaEvent
<1>14. CASE MainSetBase
  BY <1>14, CompletionFrame DEF MainSetBase
<1>15. CASE ExtAdvWithPaReady
  BY <1>15, CompletionFrame DEF ExtAdvWithPaReady
<1>16. CASE ButtonAction
  BY <1>16, CompletionFrame DEF ButtonAction
<1>17. CASE ButtonSetData
  BY <1>17, CompletionFrame DEF ButtonSetData
<1>18. CASE UNCHANGED vars
  BY <1>18, CompletionFrame DEF vars
<1> QED BY <1>1, <1>2, <1>3, <1>4, <1>5, <1>6, <1>7, <1>8, <1>9, <1>10, <1>11, <1>12, <1>13,
           <1>14, <1>15, <1>16, <1>17, <1>18 DEF Next, WorkqThread, RxHandler

LEMMA Invariants == Spec => [](TypeInv /\ CompletionInv)
  BY TypeInit, TypeStep, CompletionInit, CompletionStep, PTL DEF Spec

\* For every accepted request exactly one completion is under way, and none without.
THEOREM CompletionUnderWay == Spec => []OneCompletionUnderWay
<1>1. CompletionInv => OneCompletionUnderWay
  BY DEF CompletionInv
<1> QED BY <1>1, Invariants, PTL

-----------------------------------------------------------------------------
(* The service implements the protocol *)

\* A step that sends nothing and neither opens nor closes a request is a stutter.
LEMMA SilentStep ==
  ASSUME log' = log, Open' <=> Open PROVE UNCHANGED <<log, Open>>
  OBVIOUS

\* PaProtocol's messages are the service's: both take them from PaCmdParser.
LEMMA ProtocolMessages ==
  /\ \A r \in Results : Protocol!DataSendRsp(r) = DataSendRsp(r)
  /\ Protocol!DataSendComplete = DataSendComplete
  /\ Protocol!STATUS_GET_RSP = STATUS_GET_RSP
  /\ Protocol!Results = Results
  /\ Protocol!PA_RESULT_SUCCESS = PA_RESULT_SUCCESS
  /\ Protocol!PA_RESULT_BUSY = PA_RESULT_BUSY
  BY DEF Protocol!DataSendRsp, Protocol!DATA_SEND_RSP, Protocol!DataSendComplete,
         Protocol!DATA_SEND_COMPLETE, Protocol!STATUS_GET_RSP, Protocol!Results,
         Protocol!PA_RESULT_SUCCESS, Protocol!PA_RESULT_BUSY, Protocol!PA_RESULT_INVALID_SID,
         Protocol!PA_RESULT_DATA_TOO_LARGE, Protocol!PA_RESULT_NOT_READY,
         DataSendRsp, DATA_SEND_RSP, DataSendComplete, DATA_SEND_COMPLETE, STATUS_GET_RSP,
         Results, PA_RESULT_SUCCESS, PA_RESULT_BUSY, PA_RESULT_INVALID_SID,
         PA_RESULT_DATA_TOO_LARGE, PA_RESULT_NOT_READY

LEMMA ProtocolStep ==
  ASSUME TypeInv, CompletionInv, [Next]_vars
  PROVE  [Protocol!Next]_<<log, Open>>
<1> USE DEF uartVars, wqVars, mainVars, ctlVars, btnVars, pcVars
<1> DEFINE Silent == log' = log /\ (Open' <=> Open)
<1>1. CASE HandleStatusGetReq
  <2> DEFINE m == StatusGetRsp(AdvertisedSids, AdvertisedAvailable)
  <2>1. log' = Append(log, m) /\ m \in Seq(Nat) /\ m[2] = STATUS_GET_RSP /\ log \in Seq(Seq(Nat))
    BY <1>1, StatusGetRspType DEF HandleStatusGetReq, UartSend, TypeInv, TypeOK
  <2>2. Len(log') = Len(log) + 1 /\ log'[Len(log')] = m
    BY <2>1
  <2>3. Open' <=> Open
    BY <1>1 DEF HandleStatusGetReq, Open
  <2>4. Protocol!Report
    BY <2>1, <2>2, <2>3, ProtocolMessages DEF Protocol!Report, Protocol!Send
  <2> QED BY <2>4 DEF Protocol!Next
<1>2. CASE RefuseDataSendReq
  <2> DEFINE r == RefusalOf(Copied)
  <2>1. r \in Results \ {PA_RESULT_SUCCESS} /\ log' = Append(log, DataSendRsp(r))
    BY <1>2, RefusalType DEF RefuseDataSendReq, UartSend
  <2>2. Open' <=> Open
    BY <1>2 DEF RefuseDataSendReq, Open
  <2>3. Open <=> r = PA_RESULT_BUSY
    <3>1. pa_ctx.state \in {PA_STATE_IDLE, PA_STATE_PENDING} /\ wq_pc = "copy"
      BY <1>2 DEF TypeInv, TypeOK, RefuseDataSendReq
    <3>2. pa_ctx.state = PA_STATE_PENDING => ext_adv
      BY DEF CompletionInv
    <3> QED BY <3>1, <3>2 DEF Open, RefusalOf, SubmitResult, PA_STATE_IDLE, PA_STATE_PENDING,
            PA_RESULT_SUCCESS, PA_RESULT_BUSY, PA_RESULT_NOT_READY, PA_RESULT_DATA_TOO_LARGE
  <2>4. Protocol!Refuse(r)
    BY <2>1, <2>2, <2>3, ProtocolMessages DEF Protocol!Refuse, Protocol!Send
  <2> QED BY <2>1, <2>4, ProtocolMessages DEF Protocol!Next
<1>3. CASE SetDataOk
  <2>1. log' = Append(log, DataSendRsp(PA_RESULT_SUCCESS))
    BY <1>3 DEF SetDataOk, UartSend
  <2>2. ~Open /\ Open'
    BY <1>3 DEF SetDataOk, Open, CompletionInv
  <2>3. Protocol!Accept
    BY <2>1, <2>2, ProtocolMessages DEF Protocol!Accept, Protocol!Send, Results
  <2> QED BY <2>3 DEF Protocol!Next
<1>4. CASE SetDataFails
  <2>1. log' = Append(log, DataSendRsp(PA_RESULT_NOT_READY))
    BY <1>4 DEF SetDataFails, UartSend
  <2>2. ~Open /\ ~Open'
    BY <1>4, ResetType DEF SetDataFails, Open, PA_STATE_IDLE, PA_STATE_PENDING
  <2>3. /\ PA_RESULT_NOT_READY \in Results \ {PA_RESULT_SUCCESS}
        /\ PA_RESULT_NOT_READY # PA_RESULT_BUSY
    BY DEF Results, PA_RESULT_SUCCESS, PA_RESULT_BUSY, PA_RESULT_NOT_READY,
           PA_RESULT_INVALID_SID, PA_RESULT_DATA_TOO_LARGE
  <2>4. Open' <=> Open
    BY <2>2
  <2>5. Open <=> PA_RESULT_NOT_READY = PA_RESULT_BUSY
    BY <2>2, <2>3
  <2>6. Protocol!Refuse(PA_RESULT_NOT_READY)
    BY <2>1, <2>3, <2>4, <2>5, ProtocolMessages DEF Protocol!Refuse, Protocol!Send
  <2> QED BY <2>3, <2>6, ProtocolMessages DEF Protocol!Next
<1>5. CASE ServiceOnPaInterval
  <2>1. wq_pc = "timer_work" /\ wq_pc' = "idle"
    BY <1>5 DEF ServiceOnPaInterval
  <2>2. pa_ctx.state = PA_STATE_PENDING /\ Open
    BY <2>1 DEF CompletionInv, OneCompletionUnderWay, TimerRunning, Open
  <2>3. log' = Append(log, DataSendComplete) /\ pa_ctx'.state = PA_STATE_IDLE
    BY <1>5, <2>2, ResetType DEF ServiceOnPaInterval, IntervalTransitions, UartSend
  <2>4. ~Open'
    BY <2>3 DEF Open, PA_STATE_IDLE, PA_STATE_PENDING
  <2>5. Protocol!Complete
    BY <2>2, <2>3, <2>4, ProtocolMessages DEF Protocol!Complete, Protocol!Send
  <2> QED BY <2>5 DEF Protocol!Next
<1>6. CASE SubmitDataSendReq
  <2>1. log' = log /\ wq_pc = "copy" /\ wq_pc' = "set_data"
    BY <1>6 DEF SubmitDataSendReq
  <2>2. pa_ctx.state = PA_STATE_IDLE
    BY <1>6 DEF SubmitDataSendReq, RefusalOf, SubmitResult, PA_RESULT_SUCCESS,
                PA_RESULT_BUSY, PA_RESULT_NOT_READY, PA_RESULT_DATA_TOO_LARGE
  <2>3. ~Open /\ ~Open'
    BY <2>1, <2>2 DEF Open, PA_STATE_IDLE, PA_STATE_PENDING
  <2> QED BY <2>1, <2>3, SilentStep
<1>7. CASE \/ WorkqTake \/ ParseError \/ ParseDataSendReq
           \/ \E f \in Frames : UartIsr(f)
           \/ Tick \/ TimerExpiry \/ PaEvent
           \/ MainSetBase \/ ExtAdvWithPaReady \/ ButtonAction \/ ButtonSetData
           \/ UNCHANGED vars
  <2>1. log' = log /\ pa_ctx' = pa_ctx
    BY <1>7 DEF WorkqTake, ParseError, ParseDataSendReq, UartIsr, Tick, TimerExpiry, PaEvent,
                MainSetBase, ExtAdvWithPaReady, ButtonAction, ButtonSetData, vars
  <2>2. CASE WorkqTake
    <3>1. Head(workq) \in {"rx_work", "timer_work"}
      BY <2>2, HeadTailProperties DEF WorkqTake, TypeInv, TypeOK
    <3>2. wq_pc # "set_data" /\ wq_pc' # "set_data"
      BY <2>2, <3>1 DEF WorkqTake
    <3> QED BY <2>1, <3>2, SilentStep DEF Open
  <2>3. CASE ~WorkqTake
    <3>1. wq_pc' = wq_pc \/ (wq_pc = "rx_work" /\ wq_pc' \in {"idle", "copy"})
      BY <1>7, <2>3 DEF ParseError, ParseDataSendReq, UartIsr, Tick, TimerExpiry, PaEvent,
                MainSetBase, ExtAdvWithPaReady, ButtonAction, ButtonSetData, vars
    <3> QED BY <2>1, <3>1, SilentStep DEF Open
  <2> QED BY <2>2, <2>3
<1> QED BY <1>1, <1>2, <1>3, <1>4, <1>5, <1>6, <1>7 DEF Next, WorkqThread, RxHandler

\* The service keeps the protocol for every PC, every schedule of the interrupt,
\* the work queue, the timer and the button, and every value of the constants.
THEOREM ServiceImplementsProtocol == Spec => ImplementsProtocol
<1>1. Init => Protocol!Init
  <2>1. ASSUME Init PROVE log = << >> /\ Open = FALSE
    BY <2>1 DEF Init, InitContext, Open, PA_STATE_IDLE, PA_STATE_PENDING
  <2> QED BY <2>1 DEF Protocol!Init
<1>2. TypeInv /\ CompletionInv /\ [Next]_vars => [Protocol!Next]_<<log, Open>>
  BY ProtocolStep
<1> QED BY <1>1, <1>2, Invariants, PTL
        DEF Spec, ImplementsProtocol, Protocol!Spec, Protocol!protocolVars
-----------------------------------------------------------------------------
(* BASE goes out in every packet *)

\* Why BASE is never lost: whoever is in the host call composed "combined" when the
\* adapter was ready, and by then main() had registered BASE.
BaseInv ==
  /\ BaseInEveryPaPacket
  /\ ext_adv => main_pc = "advertising"
  /\ main_pc # "service_ready" => base_count = 1
  /\ wq_pc = "set_data" \/ btn_pc = "set_data" => combined.base

LEMMA ComposedWithBase ==
  ASSUME base_count = 1, NEW data PROVE Compose(data).base
<1>1. (base_count > 0) = TRUE
  OBVIOUS
<1>2. Compose(data) = [base |-> TRUE, vs |-> data]
  BY <1>1, Zenon DEF Compose
<1> QED BY <1>2

\* A step that leaves the advertising data alone, and enters no host call.
LEMMA BaseFrame ==
  ASSUME BaseInv,
         UNCHANGED <<main_pc, base_count, combined, pa_data, ext_adv, btn_pc>>,
         wq_pc' = "set_data" => wq_pc = "set_data"
  PROVE  BaseInv'
  BY Zenon DEF BaseInv, BaseInEveryPaPacket

LEMMA BaseStep ==
  ASSUME TypeInv, BaseInv, [Next]_vars PROVE BaseInv'
<1> USE DEF uartVars, wqVars, mainVars, ctlVars, btnVars, pcVars
<1>1. ASSUME NEW f \in Frames, UartIsr(f) PROVE BaseInv'
  BY <1>1, BaseFrame DEF UartIsr
<1>2. CASE WorkqTake
  <2>1. Head(workq) \in {"rx_work", "timer_work"}
    BY <1>2, HeadTailProperties DEF WorkqTake, TypeInv, TypeOK
  <2> QED BY <1>2, <2>1, BaseFrame DEF WorkqTake
<1>3. CASE SubmitDataSendReq
  <2>1. ext_adv
    BY <1>3 DEF SubmitDataSendReq, RefusalOf, PA_RESULT_SUCCESS, PA_RESULT_NOT_READY
  <2>2. combined'.base
    <3>1. base_count = 1 /\ combined' = Compose(Copied)
      BY <1>3, <2>1 DEF SubmitDataSendReq, BaseInv
    <3> QED BY <3>1, ComposedWithBase, Zenon
  <2> QED BY <1>3, <2>2, Zenon DEF SubmitDataSendReq, BaseInv, BaseInEveryPaPacket
<1>4. CASE SetDataOk
  BY <1>4, Zenon DEF SetDataOk, BaseInv, BaseInEveryPaPacket
<1>5. CASE MainSetBase
  <2>1. ~ext_adv /\ ext_adv' = ext_adv
    BY <1>5 DEF MainSetBase, BaseInv
  <2>2. base_count' = 1 /\ UNCHANGED <<wq_pc, btn_pc, combined>>
    BY <1>5 DEF MainSetBase
  <2> QED BY <2>1, <2>2, Zenon DEF BaseInv, BaseInEveryPaPacket
<1>6. CASE ExtAdvWithPaReady
  <2>1. pa_data'.base
    BY <1>6 DEF ExtAdvWithPaReady
  <2> QED BY <1>6, <2>1, Zenon DEF ExtAdvWithPaReady, BaseInv, BaseInEveryPaPacket
<1>7. CASE ButtonAction
  <2>1. CASE ext_adv
    <3>1. combined'.base
      <4>1. base_count = 1 /\ combined' = Compose(TestData)
        BY <1>7, <2>1 DEF ButtonAction, BaseInv
      <4> QED BY <4>1, ComposedWithBase, Zenon
    <3> QED BY <1>7, <2>1, <3>1, Zenon DEF ButtonAction, BaseInv, BaseInEveryPaPacket
  <2>2. CASE ~ext_adv
    <3>1. UNCHANGED <<main_pc, base_count, combined, pa_data, ext_adv, btn_pc, wq_pc>>
      BY <1>7, <2>2, Zenon DEF ButtonAction
    <3> QED BY <3>1, BaseFrame
  <2> QED BY <2>1, <2>2
<1>8. CASE ButtonSetData
  <2>1. pa_data' = combined \/ pa_data' = pa_data
    BY <1>8 DEF ButtonSetData
  <2> QED BY <1>8, <2>1, Zenon DEF ButtonSetData, BaseInv, BaseInEveryPaPacket
<1>9. CASE \/ ParseError \/ HandleStatusGetReq \/ ParseDataSendReq \/ RefuseDataSendReq
           \/ SetDataFails \/ ServiceOnPaInterval \/ Tick \/ TimerExpiry \/ PaEvent
           \/ UNCHANGED vars
  BY <1>9, BaseFrame DEF ParseError, HandleStatusGetReq, ParseDataSendReq, RefuseDataSendReq,
     SetDataFails, ServiceOnPaInterval, Tick, TimerExpiry, PaEvent, vars
<1> QED BY <1>1, <1>2, <1>3, <1>4, <1>5, <1>6, <1>7, <1>8, <1>9
        DEF Next, WorkqThread, RxHandler

LEMMA BaseInvariant == Spec => []BaseInv
<1>1. Init => BaseInv
  <2>1. ASSUME Init
        PROVE  ~ext_adv /\ main_pc = "service_ready" /\ wq_pc = "idle" /\ btn_pc = "wait"
    BY <2>1 DEF Init
  <2> QED BY <2>1 DEF BaseInv, BaseInEveryPaPacket
<1>2. TypeInv /\ BaseInv /\ [Next]_vars => BaseInv'
  BY BaseStep
<1> QED BY <1>1, <1>2, Invariants, PTL DEF Spec

\* Once periodic advertising is up, PA never goes out without BASE: neither the
\* service nor the button, alone or overlapping in the adapter, drops it.
THEOREM BaseAlwaysSent == Spec => []BaseInEveryPaPacket
<1>1. BaseInv => BaseInEveryPaPacket
  BY DEF BaseInv
<1> QED BY <1>1, BaseInvariant, PTL

-----------------------------------------------------------------------------
(* A completion means that the data was transmitted *)

\* While a request is open, the controller holds its data; and the timer and the
\* controller's clock run together, so that an expired timer means that more than
\* one longest interval has passed with that data in place.
AiredInv ==
  /\ btn_pc = "wait"
  /\ wq_pc = "set_data" => combined.vs = pa_ctx.data
  /\ Open => pa_data.vs = pa_ctx.data
  /\ TimerArmed => pa_ctx.data \in aired \/ pa_clock >= ONESHOT - timer
  /\ TimerQueued \/ TimerRunning => pa_ctx.data \in aired

\* A step that leaves the data, the controller and the completion's way alone.
LEMMA AiredFrame ==
  ASSUME AiredInv,
         UNCHANGED <<btn_pc, combined, pa_ctx, pa_data, aired, timer, pa_clock>>,
         \/ wq_pc' = wq_pc
         \/ wq_pc \in {"rx_work", "copy"} /\ wq_pc' \in {"idle", "copy"},
         TimerQueued' => TimerQueued
  PROVE  AiredInv'
  BY DEF AiredInv, Open, TimerArmed, TimerRunning

LEMMA AiredStep ==
  ASSUME MaxPresses = 0, ONESHOT > PA_INT_MAX,
         TypeInv, CompletionInv, CompletionInv', BaseInv, AiredInv, [Next]_vars
  PROVE  AiredInv'
<1> USE DEF uartVars, wqVars, mainVars, ctlVars, btnVars, pcVars
<1>1. ASSUME NEW f \in Frames, UartIsr(f) PROVE AiredInv'
  <2>1. TimerQueued' => TimerQueued
    BY <1>1, SubmitQueues DEF UartIsr, CompletionInv, QueuedOnce, TimerQueued
  <2> QED BY <1>1, <2>1, AiredFrame DEF UartIsr
<1>2. CASE WorkqTake
  <2>1. /\ Head(workq) = "timer_work" => TimerQueued
        /\ TimerQueued' => TimerQueued
    BY <1>2, TakeDequeues DEF WorkqTake, CompletionInv, QueuedOnce, TimerQueued
  <2>2. Head(workq) \in {"rx_work", "timer_work"}
    BY <1>2, HeadTailProperties DEF WorkqTake, TypeInv, TypeOK
  <2> QED BY <1>2, <2>1, <2>2 DEF WorkqTake, AiredInv, Open, TimerArmed, TimerRunning
<1>3. CASE SubmitDataSendReq
  <2>1. combined'.vs = pa_ctx'.data
    <3>1. SubmitResult(pa_ctx, Copied) = PA_RESULT_SUCCESS
      BY <1>3 DEF SubmitDataSendReq, RefusalOf, PA_RESULT_SUCCESS, PA_RESULT_NOT_READY
    <3>2. pa_ctx'.data = Copied
      BY <1>3, <3>1 DEF SubmitDataSendReq, Submit
    <3>3. combined'.vs = Copied
      BY <1>3 DEF SubmitDataSendReq, Compose
    <3> QED BY <3>2, <3>3
  <2>2. wq_pc' = "set_data" /\ btn_pc' = btn_pc
    BY <1>3 DEF SubmitDataSendReq
  <2>3. ~Open'
    BY <2>2 DEF Open
  <2>4. ~TimerArmed' /\ ~TimerQueued' /\ ~TimerRunning'
    BY <2>3 DEF CompletionInv, OneCompletionUnderWay
  <2> QED BY <2>1, <2>2, <2>3, <2>4 DEF AiredInv
<1>4. CASE SetDataOk
  <2>1. /\ pa_data' = combined /\ pa_ctx' = pa_ctx /\ wq_pc = "set_data"
        /\ wq_pc' = "idle" /\ timer' = ONESHOT /\ pa_clock' = pa_clock
        /\ btn_pc' = btn_pc
    BY <1>4 DEF SetDataOk
  <2>2. TimerArmed'
    BY <2>1, ServiceAssumption DEF TimerArmed, OFF
  <2>3. ~TimerQueued' /\ ~TimerRunning'
    BY <2>2 DEF CompletionInv, OneCompletionUnderWay
  <2>4. pa_clock' >= ONESHOT - timer'
    BY <2>1, ServiceAssumption DEF TypeInv, TypeOK
  <2> QED BY <2>1, <2>3, <2>4 DEF AiredInv
<1>5. CASE SetDataFails \/ ServiceOnPaInterval
  <2>1. wq_pc' = "idle" /\ btn_pc' = btn_pc
    BY <1>5 DEF SetDataFails, ServiceOnPaInterval
  <2>2. wq_pc = "timer_work" => pa_ctx.state = PA_STATE_PENDING
    BY DEF CompletionInv, OneCompletionUnderWay, TimerRunning, Open
  <2>3. pa_ctx'.state = PA_STATE_IDLE
    BY <1>5, <2>2, ResetType DEF SetDataFails, ServiceOnPaInterval, IntervalTransitions
  <2>4. ~Open'
    BY <2>3 DEF Open, PA_STATE_IDLE, PA_STATE_PENDING
  <2>5. ~TimerArmed' /\ ~TimerQueued' /\ ~TimerRunning'
    BY <2>4 DEF CompletionInv, OneCompletionUnderWay
  <2> QED BY <2>1, <2>4, <2>5 DEF AiredInv
<1>6. CASE Tick
  <2>1. UNCHANGED <<workq, wq_pc, pa_ctx, combined, pa_data, aired, btn_pc>>
    BY <1>6 DEF Tick
  <2>2. Open' = Open /\ TimerQueued' = TimerQueued /\ TimerRunning' = TimerRunning
    BY <2>1 DEF Open, TimerQueued, Queued, TimerRunning
  <2>3. TimerArmed' => TimerArmed' /\ timer # OFF /\ timer' = timer - 1
    BY <1>6 DEF Tick, TimerArmed
  <2>4. TimerArmed' => pa_ctx.data \in aired \/ pa_clock' >= ONESHOT - timer'
    <3> SUFFICES ASSUME TimerArmed' PROVE pa_ctx.data \in aired \/ pa_clock' >= ONESHOT - timer'
      OBVIOUS
    <3>1. TimerArmed
      BY <2>3 DEF TimerArmed
    <3>2. Open
      BY <3>1 DEF CompletionInv, OneCompletionUnderWay
    <3>3. ext_adv
      BY <3>2 DEF Open, CompletionInv
    <3>4. pa_clock' = pa_clock + 1
      BY <1>6, <3>3 DEF Tick
    <3>5. pa_clock \in Nat /\ timer \in Int /\ ONESHOT \in Nat
      BY ServiceAssumption DEF TypeInv, TypeOK, OFF
    <3>6. pa_ctx.data \in aired \/ pa_clock >= ONESHOT - timer
      BY <3>1 DEF AiredInv
    <3> QED BY <2>3, <3>4, <3>5, <3>6
  <2> QED BY <2>1, <2>2, <2>4 DEF AiredInv
<1>7. CASE TimerExpiry
  <2>1. /\ timer = 0 /\ timer' = OFF
        /\ UNCHANGED <<wq_pc, pa_ctx, combined, pa_data, pa_clock, aired, btn_pc>>
    BY <1>7 DEF TimerExpiry
  <2>2. TimerArmed
    BY <2>1 DEF TimerArmed, OFF
  <2>3. pa_clock \in Nat /\ pa_clock <= PA_INT_MAX /\ ONESHOT \in Nat /\ PA_INT_MAX \in Nat
    BY ServiceAssumption DEF TypeInv, TypeOK
  <2>4. pa_ctx.data \in aired
    BY <2>1, <2>2, <2>3 DEF AiredInv
  <2>5. Open' = Open /\ ~TimerArmed'
    BY <2>1 DEF Open, TimerArmed
  <2> QED BY <2>1, <2>4, <2>5 DEF AiredInv
<1>8. CASE PaEvent
  <2>1. /\ aired' = aired \cup {pa_data.vs}
        /\ UNCHANGED <<workq, wq_pc, pa_ctx, combined, pa_data, timer, btn_pc>>
    BY <1>8 DEF PaEvent
  <2>2. Open' = Open /\ TimerQueued' = TimerQueued /\ TimerRunning' = TimerRunning
        /\ TimerArmed' = TimerArmed
    BY <2>1 DEF Open, TimerQueued, Queued, TimerRunning, TimerArmed
  <2>3. TimerArmed => pa_ctx.data \in aired'
    BY <2>1 DEF CompletionInv, OneCompletionUnderWay, AiredInv
  <2> QED BY <2>1, <2>2, <2>3 DEF AiredInv
<1>9. CASE ExtAdvWithPaReady
  <2>1. /\ main_pc = "base_set"
        /\ UNCHANGED <<workq, wq_pc, pa_ctx, combined, timer, pa_clock, aired, btn_pc>>
    BY <1>9 DEF ExtAdvWithPaReady
  <2>2. ~ext_adv
    BY <2>1 DEF BaseInv
  <2>3. ~Open
    BY <2>2 DEF CompletionInv, Open
  <2>4. ~TimerArmed /\ ~TimerQueued /\ ~TimerRunning
    BY <2>3 DEF CompletionInv, OneCompletionUnderWay
  <2> QED BY <2>1, <2>3, <2>4 DEF AiredInv, Open, TimerArmed, TimerQueued, Queued, TimerRunning
<1>10. CASE ButtonAction \/ ButtonSetData
  <2>1. presses \in 0 .. 0
    BY DEF TypeInv, TypeOK
  <2>2. FALSE
    BY <1>10, <2>1 DEF ButtonAction, ButtonSetData, AiredInv
  <2> QED BY <2>2
<1>11. CASE \/ ParseError \/ HandleStatusGetReq \/ ParseDataSendReq \/ RefuseDataSendReq
            \/ MainSetBase \/ UNCHANGED vars
  <2>1. workq' = workq
    BY <1>11 DEF ParseError, HandleStatusGetReq, ParseDataSendReq, RefuseDataSendReq,
       MainSetBase, vars
  <2>2. TimerQueued' => TimerQueued
    BY <2>1 DEF TimerQueued, Queued
  <2> QED BY <1>11, <2>2, AiredFrame DEF ParseError, HandleStatusGetReq, ParseDataSendReq,
     RefuseDataSendReq, MainSetBase, vars
<1> QED BY <1>1, <1>2, <1>3, <1>4, <1>5, <1>6, <1>7, <1>8, <1>9, <1>10, <1>11
        DEF Next, WorkqThread, RxHandler

\* Only the interval handler sends a completion: every other frame it could be
\* taken for has another OpCode.
LEMMA OnlyIntervalCompletes ==
  ASSUME TypeInv, [Next]_vars, Completes PROVE ServiceOnPaInterval
<1> USE DEF uartVars, wqVars, mainVars, ctlVars, btnVars, pcVars
<1>1. log \in Seq(Seq(Nat))
  BY DEF TypeInv, TypeOK
<1>2. ASSUME NEW m \in Seq(Nat), Len(m) >= 2, m[2] # DATA_SEND_COMPLETE, UartSend(m)
      PROVE  FALSE
  <2>1. log'[Len(log')] = m
    BY <1>1, <1>2 DEF UartSend
  <2>2. DataSendComplete[2] = DATA_SEND_COMPLETE
    BY DEF DataSendComplete
  <2> QED BY <1>2, <2>1, <2>2 DEF Completes
<1>3. ASSUME HandleStatusGetReq PROVE FALSE
  <2> DEFINE m == StatusGetRsp(AdvertisedSids, AdvertisedAvailable)
  <2>1. m \in Seq(Nat) /\ Len(m) >= 2 /\ m[2] = STATUS_GET_RSP
    BY StatusGetRspType DEF TypeInv, TypeOK
  <2>2. m[2] # DATA_SEND_COMPLETE /\ UartSend(m)
    BY <1>3, <2>1 DEF HandleStatusGetReq, STATUS_GET_RSP, DATA_SEND_COMPLETE
  <2> HIDE DEF m
  <2> QED BY <1>2, <2>1, <2>2
<1>4. ASSUME NEW r \in Results, UartSend(DataSendRsp(r)) PROVE FALSE
  <2>1. /\ DataSendRsp(r) \in Seq(Nat) /\ Len(DataSendRsp(r)) >= 2
        /\ DataSendRsp(r)[2] # DATA_SEND_COMPLETE
    BY DataSendRspType DEF DataSendRsp, DATA_SEND_RSP, DATA_SEND_COMPLETE
  <2> QED BY <1>2, <1>4, <2>1
<1>5. ~RefuseDataSendReq /\ ~SetDataOk /\ ~SetDataFails
  <2>1. PA_RESULT_SUCCESS \in Results /\ PA_RESULT_NOT_READY \in Results
    BY DEF Results
  <2> QED BY <1>4, <2>1, RefusalType DEF RefuseDataSendReq, SetDataOk, SetDataFails
<1>6. log' # log
  BY DEF Completes
<1> QED BY <1>3, <1>5, <1>6 DEF Next, WorkqThread, RxHandler, UartIsr, WorkqTake, ParseError,
    ParseDataSendReq, SubmitDataSendReq, Tick, TimerExpiry, PaEvent, MainSetBase,
    ExtAdvWithPaReady, ButtonAction, ButtonSetData, vars

\* A completion is sent only after the request's own data went out in a PA event.
\* It needs a one-shot longer than the longest PA interval, and nobody at the
\* ACTION button: a press replaces the data of an open request.
THEOREM CompletionMeansAired ==
  ASSUME MaxPresses = 0, ONESHOT > PA_INT_MAX
  PROVE  Spec => CompleteMeansAired
<1>1. Init => AiredInv
  <2>1. ASSUME Init
        PROVE  /\ btn_pc = "wait" /\ wq_pc = "idle" /\ timer = OFF /\ workq = << >>
               /\ pa_ctx.state = PA_STATE_IDLE
    BY <2>1 DEF Init, InitContext
  <2> QED BY <2>1 DEF AiredInv, Open, TimerArmed, TimerQueued, Queued, TimerRunning,
          PA_STATE_IDLE, PA_STATE_PENDING
<1>2. TypeInv /\ CompletionInv /\ CompletionInv' /\ BaseInv /\ AiredInv /\ [Next]_vars
        => AiredInv'
  BY AiredStep
<1>3. Spec => []AiredInv
  BY <1>1, <1>2, Invariants, BaseInvariant, PTL DEF Spec
<1>4. TypeInv /\ AiredInv /\ [Next]_vars => [Completes => pa_ctx.data \in aired]_vars
  <2>1. ASSUME TypeInv, AiredInv, [Next]_vars, Completes PROVE pa_ctx.data \in aired
    <3>1. TimerRunning
      BY <2>1, OnlyIntervalCompletes DEF ServiceOnPaInterval, TimerRunning
    <3> QED BY <2>1, <3>1 DEF AiredInv
  <2> QED BY <2>1
<1> QED BY <1>3, <1>4, Invariants, PTL DEF Spec, CompleteMeansAired
-----------------------------------------------------------------------------
(* What was accepted is what the PC sent *)

RxQueued  == Queued("rx_work")
RxRunning == wq_pc \in {"rx_work", "copy", "set_data"}
LastSent  == sent[Len(sent)]

\* The array begins with the last frame the PC sent.
FrameIsLast ==
  /\ sent # << >>
  /\ rx_frame_len = Len(LastSent)
  /\ \A i \in 1 .. Len(LastSent) : rx_frame[i] = LastSent[i]

\* The request that has been parsed is the last frame's.
RequestIsLast ==
  /\ OpCode(LastSent) = DATA_SEND_REQ
  /\ AdvSid(LastSent) = req.sid /\ DataLength(LastSent) = req.data_length
  /\ 4 + req.data_length <= Len(LastSent)

\* Why a PC that waits is never torn: from its frame's arrival until the answer there
\* is one frame under way and the PC is silent, so nobody overwrites the array; and
\* while a request is open the PC waits for the completion.
PcInv ==
  /\ Once("rx_work")
  /\ ~(RxQueued /\ RxRunning)
  /\ RxQueued \/ RxRunning => pc_state = "response" /\ FrameIsLast
  /\ Open => pc_state = "completion"
  /\ wq_pc = "copy" => RequestIsLast
  /\ AcceptedAsSent

LEMMA PcInit == Init => PcInv
<1> SUFFICES ASSUME Init PROVE PcInv
  OBVIOUS
<1>1. pa_ctx.state = PA_STATE_IDLE /\ workq = << >> /\ wq_pc = "idle"
  BY DEF Init, InitContext
<1> QED BY <1>1 DEF PcInv, Once, RxQueued, Queued, RxRunning, Open, AcceptedAsSent,
        PA_STATE_IDLE, PA_STATE_PENDING

\* A step away from the frame, the PC and the request.
LEMMA PcFrame ==
  ASSUME PcInv, UNCHANGED <<rx_frame, rx_frame_len, wq_pc, req, pa_ctx, pc_state, sent>>,
         Once("rx_work")', RxQueued' <=> RxQueued
  PROVE  PcInv'
  BY DEF PcInv, RxRunning, FrameIsLast, RequestIsLast, LastSent, Open, AcceptedAsSent

LEMMA PcUartIsr ==
  ASSUME PcWaits # "none", TypeInv, PcInv, NEW f \in Frames, UartIsr(f) PROVE PcInv'
<1>1. ~RxQueued /\ ~RxRunning /\ ~Open /\ wq_pc' = wq_pc /\ pa_ctx' = pa_ctx
  BY DEF UartIsr, PcInv
<1>2. Once("rx_work")'
  BY SubmitQueues DEF UartIsr, PcInv
<1>3. f \in Seq(Bytes) /\ rx_frame \in Seq(Bytes) /\ Len(f) \in Nat
  BY ServiceAssumption DEF Bytes, TypeInv, TypeOK
<1>4. /\ sent' = Append(sent, f) /\ sent \in Seq(Frames)
      /\ rx_frame' = f \o SubSeq(rx_frame, Len(f) + 1, Len(rx_frame))
      /\ rx_frame_len' = Len(f) /\ pc_state' = "response"
  BY DEF UartIsr, TypeInv, TypeOK
<1>5. sent' # << >> /\ LastSent' = f
  BY <1>4 DEF LastSent
<1>6. FrameIsLast'
  <2>1. \A i \in 1 .. Len(f) : rx_frame'[i] = f[i]
    BY <1>3, <1>4, OverlayType
  <2> QED BY <1>4, <1>5, <2>1 DEF FrameIsLast
<1>7. pa_ctx.state # PA_STATE_PENDING
  BY <1>1 DEF Open, RxRunning
<1>8. ~RxRunning' /\ ~Open' /\ wq_pc' # "copy" /\ AcceptedAsSent'
  BY <1>1, <1>7 DEF RxRunning, Open, AcceptedAsSent
<1> QED BY <1>2, <1>4, <1>6, <1>8 DEF PcInv

\* The thread that takes rx_work leaves none behind.
LEMMA PcTake ==
  ASSUME TypeInv, PcInv, WorkqTake PROVE PcInv'
<1>1. Head(workq) \in {"rx_work", "timer_work"}
  BY HeadTailProperties DEF WorkqTake, TypeInv, TypeOK
<1>2. /\ Once("rx_work")'
      /\ Head(workq) = "rx_work" => RxQueued /\ ~RxQueued'
      /\ Head(workq) # "rx_work" => (RxQueued' <=> RxQueued)
  BY TakeDequeues DEF WorkqTake, PcInv, RxQueued
<1>3. /\ wq_pc = "idle" /\ wq_pc' = Head(workq)
      /\ UNCHANGED <<rx_frame, rx_frame_len, req, pa_ctx, pc_state, sent>>
  BY DEF WorkqTake, uartVars, pcVars
<1>4. (RxQueued' \/ RxRunning') => RxQueued
  BY <1>1, <1>2, <1>3 DEF RxRunning
<1>5. ~(RxQueued' /\ RxRunning')
  BY <1>1, <1>2, <1>3 DEF RxRunning
<1>6. FrameIsLast' = FrameIsLast /\ (Open' <=> Open) /\ (AcceptedAsSent' <=> AcceptedAsSent)
      /\ wq_pc' # "copy"
  BY <1>1, <1>3 DEF FrameIsLast, LastSent, Open, AcceptedAsSent
<1> QED BY <1>2, <1>3, <1>4, <1>5, <1>6 DEF PcInv

LEMMA PcParse ==
  ASSUME TypeInv, PcInv, ParseDataSendReq PROVE PcInv'
<1>1. FrameIsLast /\ ~RxQueued
  BY DEF ParseDataSendReq, PcInv, RxRunning
<1>2. /\ 4 + DataLength(rx_frame) <= rx_frame_len
      /\ DataLength(rx_frame) \in 0 .. PA_MAX_DATA_SIZE
  BY ParsedDataInFrame DEF ParseDataSendReq, TypeInv, TypeOK
<1>3. /\ req' = [sid |-> AdvSid(rx_frame), data_length |-> DataLength(rx_frame)]
      /\ OpCode(rx_frame) = DATA_SEND_REQ
      /\ UNCHANGED <<rx_frame, rx_frame_len, workq, pa_ctx, pc_state, sent>>
      /\ wq_pc = "rx_work" /\ wq_pc' = "copy"
  BY DEF ParseDataSendReq, uartVars, pcVars
<1>4. DataLength(rx_frame) \in Nat /\ rx_frame_len \in Nat
  BY <1>2, ParserAssumption DEF TypeInv, TypeOK
<1>5. rx_frame_len >= 4
  BY <1>2, <1>4
<1>6. rx_frame[2] = LastSent[2] /\ rx_frame[3] = LastSent[3] /\ rx_frame[4] = LastSent[4]
  BY <1>1, <1>4, <1>5 DEF FrameIsLast
<1>7. LastSent' = LastSent
  BY <1>3 DEF LastSent
<1>8. RequestIsLast'
  BY <1>1, <1>2, <1>3, <1>6, <1>7
     DEF RequestIsLast, OpCode, AdvSid, DataLength, FrameIsLast
<1>9. /\ FrameIsLast' /\ (Open' <=> Open) /\ (AcceptedAsSent' <=> AcceptedAsSent)
      /\ ~RxQueued' /\ Once("rx_work")'
  BY <1>1, <1>3, <1>7 DEF FrameIsLast, Open, AcceptedAsSent, RxQueued, Queued, Once, PcInv
<1>10. RxRunning
  BY <1>3 DEF RxRunning
<1> QED BY <1>3, <1>8, <1>9, <1>10 DEF PcInv

LEMMA PcSubmit ==
  ASSUME TypeInv, PcInv, SubmitDataSendReq PROVE PcInv'
<1>1. FrameIsLast /\ RequestIsLast /\ ~RxQueued /\ RxRunning /\ pc_state = "response"
  BY DEF SubmitDataSendReq, PcInv, RxRunning
<1>2. SubmitResult(pa_ctx, Copied) = PA_RESULT_SUCCESS
  BY DEF SubmitDataSendReq, RefusalOf, PA_RESULT_SUCCESS, PA_RESULT_NOT_READY
<1>3. /\ pa_ctx'.current_sid = req.sid /\ pa_ctx'.data = Copied
      /\ UNCHANGED <<rx_frame, rx_frame_len, workq, req, pc_state, sent>>
      /\ wq_pc' = "set_data"
  BY <1>2 DEF SubmitDataSendReq, Submit, uartVars, pcVars
<1>4. sent \in Seq(Frames) /\ sent # << >>
  BY <1>1 DEF FrameIsLast, TypeInv, TypeOK
<1>5. LastSent \in Frames /\ Len(sent) \in 1 .. Len(sent)
  BY <1>4 DEF LastSent
<1>6. Copied = Payload(LastSent, req.data_length)
  <2>1. /\ LastSent \in Seq(Bytes) /\ rx_frame \in Seq(Bytes) /\ req.data_length \in Nat
        /\ Len(LastSent) <= Len(rx_frame)
    BY <1>1, <1>5, ServiceAssumption, BytesAreNaturals
       DEF Bytes, TypeInv, TypeOK, FrameIsLast
  <2>2. 4 + req.data_length <= Len(LastSent)
    BY <1>1 DEF RequestIsLast
  <2>3. Len(LastSent) \in Nat /\ Len(rx_frame) \in Nat
    BY <2>1, LenProperties
  <2>4. /\ 4 + req.data_length <= Len(rx_frame)
        /\ \A i \in 1 .. 4 + req.data_length : rx_frame[i] = LastSent[i]
    BY <1>1, <2>1, <2>2, <2>3 DEF FrameIsLast
  <2> QED BY <2>1, <2>2, <2>4, SamePayload DEF Copied
<1>7. AcceptedAsSent'
  <2>1. /\ OpCode(LastSent) = DATA_SEND_REQ
        /\ AdvSid(LastSent) = pa_ctx'.current_sid
        /\ Payload(LastSent, DataLength(LastSent)) = pa_ctx'.data
    BY <1>1, <1>3, <1>6 DEF RequestIsLast
  <2> QED BY <1>3, <1>5, <2>1 DEF AcceptedAsSent, LastSent
<1>8. /\ FrameIsLast' /\ ~Open' /\ ~RxQueued' /\ Once("rx_work")'
  BY <1>1, <1>3 DEF FrameIsLast, LastSent, Open, RxQueued, Queued, Once, PcInv
<1> QED BY <1>1, <1>3, <1>7, <1>8 DEF PcInv

\* The handler answers, or gives up, and nothing of the frame is left under way.
LEMMA PcAnswer ==
  ASSUME TypeInv, CompletionInv, PcInv,
         ParseError \/ HandleStatusGetReq \/ RefuseDataSendReq \/ SetDataOk \/ SetDataFails
  PROVE  PcInv'
<1>1. RxRunning /\ wq_pc' = "idle" /\ workq' = workq /\ sent' = sent
  BY DEF ParseError, HandleStatusGetReq, RefuseDataSendReq, SetDataOk, SetDataFails,
         UartSend, RxRunning, pcVars
<1>2. ~RxQueued' /\ ~RxRunning' /\ wq_pc' # "copy" /\ Once("rx_work")'
  BY <1>1 DEF PcInv, RxRunning, RxQueued, Queued, Once
<1>3. CASE SetDataOk
  <2>1. pa_ctx' = pa_ctx
    BY <1>3 DEF SetDataOk
  <2>2. pc_state' = "completion"
    <3>1. pc_state' = PcAfter(DataSendRsp(PA_RESULT_SUCCESS))
      BY <1>3 DEF SetDataOk, UartSend
    <3> QED BY <3>1 DEF PcAfter, DataSendRsp
  <2>3. AcceptedAsSent'
    BY <1>1, <2>1 DEF AcceptedAsSent, PcInv
  <2> QED BY <1>2, <2>2, <2>3 DEF PcInv
<1>4. CASE ~SetDataOk
  <2>1. pc_state = "response" /\ ~Open
    BY <1>1 DEF PcInv
  <2>2. pa_ctx'.state # PA_STATE_PENDING
    <3>1. CASE SetDataFails
      BY <3>1, ResetType DEF SetDataFails, PA_STATE_IDLE, PA_STATE_PENDING
    <3>2. CASE ~SetDataFails
      BY <1>4, <2>1, <3>2 DEF ParseError, HandleStatusGetReq, RefuseDataSendReq, Open
    <3> QED BY <3>1, <3>2
  <2> QED BY <1>2, <2>2 DEF PcInv, Open, AcceptedAsSent
<1> QED BY <1>3, <1>4

LEMMA PcOnPaInterval ==
  ASSUME TypeInv, CompletionInv, PcInv, ServiceOnPaInterval PROVE PcInv'
<1>1. wq_pc = "timer_work" /\ wq_pc' = "idle" /\ workq' = workq
  BY DEF ServiceOnPaInterval
<1>2. Open
  BY <1>1 DEF CompletionInv, OneCompletionUnderWay, TimerRunning
<1>3. ~RxQueued /\ ~RxRunning
  BY <1>2 DEF PcInv
<1>4. pa_ctx'.state = PA_STATE_IDLE
  BY <1>2, ResetType DEF ServiceOnPaInterval, IntervalTransitions, Open
<1>5. ~RxQueued' /\ ~RxRunning' /\ Once("rx_work")'
  BY <1>1, <1>3 DEF RxQueued, Queued, RxRunning, Once, PcInv
<1> QED BY <1>1, <1>4, <1>5 DEF PcInv, Open, AcceptedAsSent, PA_STATE_IDLE, PA_STATE_PENDING

LEMMA PcStep ==
  ASSUME PcWaits # "none", TypeInv, CompletionInv, PcInv, [Next]_vars PROVE PcInv'
<1> USE DEF uartVars, wqVars, mainVars, ctlVars, btnVars, pcVars
<1>1. CASE TimerExpiry
  <2>1. Once("rx_work")' /\ (RxQueued' <=> RxQueued)
    BY <1>1, SubmitQueues DEF TimerExpiry, PcInv, RxQueued
  <2> QED BY <1>1, <2>1, PcFrame DEF TimerExpiry
<1>2. CASE Tick \/ PaEvent \/ MainSetBase \/ ExtAdvWithPaReady \/ ButtonAction \/ ButtonSetData
           \/ UNCHANGED vars
  <2>1. workq' = workq
    BY <1>2 DEF Tick, PaEvent, MainSetBase, ExtAdvWithPaReady, ButtonAction, ButtonSetData, vars
  <2>2. Once("rx_work")' /\ (RxQueued' <=> RxQueued)
    BY <2>1 DEF PcInv, RxQueued, Queued, Once
  <2> QED BY <1>2, <2>2, PcFrame
          DEF Tick, PaEvent, MainSetBase, ExtAdvWithPaReady, ButtonAction, ButtonSetData, vars
<1> QED BY <1>1, <1>2, PcUartIsr, PcTake, PcParse, PcSubmit, PcAnswer, PcOnPaInterval
        DEF Next, WorkqThread, RxHandler

\* With a PC that waits for its answers, identifier and data of every accepted
\* request come from one frame it sent, although the parser reads the buffer that
\* the interrupt writes.
THEOREM WholeFramesAccepted ==
  ASSUME PcWaits # "none"
  PROVE  Spec => []AcceptedAsSent
<1>1. TypeInv /\ CompletionInv /\ PcInv /\ [Next]_vars => PcInv'
  BY PcStep
<1>2. Spec => []PcInv
  BY <1>1, PcInit, Invariants, PTL DEF Spec
<1>3. PcInv => AcceptedAsSent
  BY DEF PcInv
<1> QED BY <1>2, <1>3, PTL

-----------------------------------------------------------------------------
(* The PC is never left waiting for something that is not on its way *)

\* Every frame the PC sends is one that the parser accepts. One that it does not is
\* only logged, and the PC would wait for an answer that nobody sends.
FramesAreCommands == \A f \in Frames : ParseResult(f, Len(f)) = 0

\* While the PC waits for an answer its frame is in the work queue or in the
\* handler, and while it waits for a completion that is in the timer, in the queue
\* or in the handler; and it waits for nothing else.
PcIsAwaited ==
  /\ pc_state = "response" <=> RxQueued \/ RxRunning
  /\ pc_state = "completion" <=> TimerArmed \/ TimerQueued \/ TimerRunning

\* The half of it that PcInv does not say. "completion" is tied to the open request,
\* which OneCompletionUnderWay ties to the timer.
AwaitedInv ==
  /\ pc_state = "response" => RxQueued \/ RxRunning
  /\ pc_state = "completion" => Open

\* What the array holds under the handler is a frame of the PC, so it parses.
LEMMA HandledFrameParses ==
  ASSUME FramesAreCommands, TypeInv, PcInv, wq_pc = "rx_work"
  PROVE  ParseResult(rx_frame, rx_frame_len) = 0
<1>1. FrameIsLast
  BY DEF PcInv, RxRunning
<1>2. LastSent \in Frames
  BY <1>1 DEF FrameIsLast, LastSent, TypeInv, TypeOK
<1>3. /\ LastSent \in Seq(Bytes) /\ Len(LastSent) >= 2 /\ Len(LastSent) \in Nat
      /\ LastSent[1] + 1 = Len(LastSent)
  BY <1>2, ServiceAssumption, LenProperties
<1>4. /\ rx_frame_len = Len(LastSent)
      /\ rx_frame[1] = LastSent[1] /\ rx_frame[2] = LastSent[2]
  BY <1>1, <1>3 DEF FrameIsLast
<1>5. ParseResult(LastSent, Len(LastSent)) = 0
  BY <1>2 DEF FramesAreCommands
<1>6. LastSent[1] \in Nat
  <2>1. 1 \in 1 .. Len(LastSent)
    BY <1>3
  <2>2. LastSent[1] \in Bytes
    BY <1>3, <2>1, ElementOfSeq
  <2> QED BY <2>2, BytesAreNaturals
<1>7. CASE OpCode(LastSent) = STATUS_GET_REQ
  BY <1>3, <1>4, <1>6, <1>7 DEF ParseResult, OpCode, STATUS_GET_REQ, DATA_SEND_REQ
<1>8. CASE OpCode(LastSent) = DATA_SEND_REQ
  <2>1. ~BadSendLength(LastSent)
    BY <1>3, <1>5, <1>6, <1>8 DEF ParseResult, OpCode, DATA_SEND_REQ, STATUS_GET_REQ
  <2>2. Len(LastSent) >= 4
    BY <1>3, <1>6, <2>1 DEF BadSendLength
  <2>3. rx_frame[4] = LastSent[4]
    BY <1>1, <1>3, <2>2 DEF FrameIsLast
  <2>4. ~BadSendLength(rx_frame) /\ OpCode(rx_frame) = DATA_SEND_REQ
    BY <1>4, <1>8, <2>1, <2>3 DEF BadSendLength, DataLength, OpCode
  <2> QED BY <1>3, <1>4, <1>6, <2>4
          DEF ParseResult, OpCode, DATA_SEND_REQ, STATUS_GET_REQ
<1>9. OpCode(LastSent) \in {STATUS_GET_REQ, DATA_SEND_REQ}
  BY <1>3, <1>5, <1>6 DEF ParseResult, OpCode
<1> QED BY <1>7, <1>8, <1>9

\* The three answers that leave the PC ready.
LEMMA AwaitedRefusal ==
  ASSUME PcWaits = "accepted", TypeInv,
         HandleStatusGetReq \/ RefuseDataSendReq \/ SetDataFails
  PROVE  pc_state' = "ready"
<1>1. CASE HandleStatusGetReq
  <2> DEFINE m == StatusGetRsp(AdvertisedSids, AdvertisedAvailable)
  <2>1. m[2] # DATA_SEND_RSP
    BY StatusGetRspType DEF TypeInv, TypeOK, STATUS_GET_RSP, DATA_SEND_RSP
  <2>2. pc_state' = PcAfter(m)
    BY <1>1 DEF HandleStatusGetReq, UartSend
  <2> HIDE DEF m
  <2> QED BY <2>1, <2>2 DEF PcAfter
<1>2. ASSUME NEW r \in Results, r # PA_RESULT_SUCCESS, UartSend(DataSendRsp(r))
      PROVE  pc_state' = "ready"
  BY <1>2 DEF UartSend, PcAfter, DataSendRsp
<1>3. CASE RefuseDataSendReq
  BY <1>2, <1>3, RefusalType DEF RefuseDataSendReq
<1>4. CASE SetDataFails
  <2>1. PA_RESULT_NOT_READY \in Results /\ PA_RESULT_NOT_READY # PA_RESULT_SUCCESS
    BY DEF Results, PA_RESULT_NOT_READY, PA_RESULT_SUCCESS
  <2> QED BY <1>2, <1>4, <2>1 DEF SetDataFails
<1> QED BY <1>1, <1>3, <1>4

LEMMA AwaitedTake ==
  ASSUME TypeInv, PcInv, AwaitedInv, WorkqTake PROVE AwaitedInv'
<1>1. Head(workq) \in {"rx_work", "timer_work"}
  BY HeadTailProperties DEF WorkqTake, TypeInv, TypeOK
<1>2. /\ Head(workq) # "rx_work" => (RxQueued' <=> RxQueued)
      /\ wq_pc = "idle" /\ wq_pc' = Head(workq)
      /\ pa_ctx' = pa_ctx /\ pc_state' = pc_state
  BY TakeDequeues DEF WorkqTake, PcInv, RxQueued, pcVars
<1>3. (RxQueued \/ RxRunning) => (RxQueued' \/ RxRunning')
  BY <1>1, <1>2 DEF RxRunning
<1>4. Open => Open'
  BY <1>1, <1>2 DEF Open
<1> QED BY <1>2, <1>3, <1>4 DEF AwaitedInv

LEMMA AwaitedStep ==
  ASSUME PcWaits = "accepted", FramesAreCommands,
         TypeInv, CompletionInv, PcInv, AwaitedInv, [Next]_vars
  PROVE  AwaitedInv'
<1> USE DEF uartVars, wqVars, mainVars, ctlVars, btnVars, pcVars
<1>1. ASSUME NEW f \in Frames, UartIsr(f) PROVE AwaitedInv'
  <2>1. RxQueued' /\ pc_state' = "response"
    BY <1>1, SubmitQueues DEF UartIsr, PcInv, RxQueued
  <2> QED BY <2>1 DEF AwaitedInv
<1>2. ~ParseError
  BY HandledFrameParses DEF ParseError
<1>3. CASE HandleStatusGetReq \/ RefuseDataSendReq \/ SetDataFails
  BY <1>3, AwaitedRefusal DEF AwaitedInv
<1>4. CASE ParseDataSendReq \/ SubmitDataSendReq
  <2>1. RxRunning /\ RxRunning' /\ pc_state' = pc_state
    BY <1>4 DEF ParseDataSendReq, SubmitDataSendReq, RxRunning
  <2> QED BY <2>1 DEF AwaitedInv, PcInv
<1>5. CASE SetDataOk
  <2>1. pc_state' = "completion"
    <3>1. pc_state' = PcAfter(DataSendRsp(PA_RESULT_SUCCESS))
      BY <1>5 DEF SetDataOk, UartSend
    <3> QED BY <3>1 DEF PcAfter, DataSendRsp
  <2>2. Open'
    BY <1>5 DEF SetDataOk, CompletionInv, Open
  <2> QED BY <2>1, <2>2 DEF AwaitedInv
<1>6. CASE ServiceOnPaInterval
  <2>1. IntervalTransitions(pa_ctx)
    BY <1>6 DEF ServiceOnPaInterval, CompletionInv, OneCompletionUnderWay, TimerRunning,
       Open, IntervalTransitions
  <2>2. pc_state' = PcAfter(DataSendComplete)
    BY <1>6, <2>1 DEF ServiceOnPaInterval, UartSend
  <2>3. pc_state' = "ready"
    BY <2>2 DEF PcAfter, DataSendComplete, DATA_SEND_COMPLETE, DATA_SEND_RSP
  <2> QED BY <2>3 DEF AwaitedInv
<1>7. CASE TimerExpiry
  <2>1. RxQueued' <=> RxQueued
    BY <1>7, SubmitQueues DEF TimerExpiry, PcInv, RxQueued
  <2> QED BY <1>7, <2>1 DEF TimerExpiry, AwaitedInv, RxRunning, Open
<1>8. CASE Tick \/ PaEvent \/ MainSetBase \/ ExtAdvWithPaReady \/ ButtonAction \/ ButtonSetData
           \/ UNCHANGED vars
  <2>1. UNCHANGED <<workq, wq_pc, pa_ctx, pc_state>>
    BY <1>8 DEF Tick, PaEvent, MainSetBase, ExtAdvWithPaReady, ButtonAction, ButtonSetData, vars
  <2> QED BY <2>1 DEF AwaitedInv, RxQueued, Queued, RxRunning, Open
<1>9. CASE WorkqTake
  BY <1>9, AwaitedTake
<1> QED BY <1>1, <1>2, <1>3, <1>4, <1>5, <1>6, <1>7, <1>8, <1>9
        DEF Next, WorkqThread, RxHandler

\* The safety half of PcIsServed: a PC that waits for its answers, and for the
\* completion of what was accepted, waits only for what the service has in hand.
THEOREM PcNeverForgotten ==
  ASSUME PcWaits = "accepted", FramesAreCommands
  PROVE  Spec => []PcIsAwaited
<1>1. PcWaits # "none"
  OBVIOUS
<1>2. TypeInv /\ CompletionInv /\ PcInv /\ AwaitedInv /\ [Next]_vars
        => PcInv' /\ AwaitedInv'
  BY <1>1, PcStep, AwaitedStep
<1>3. Init => PcInv /\ AwaitedInv
  BY PcInit DEF Init, AwaitedInv
<1>4. Spec => [](CompletionInv /\ PcInv /\ AwaitedInv)
  BY <1>2, <1>3, Invariants, PTL DEF Spec
<1>5. CompletionInv /\ PcInv /\ AwaitedInv => PcIsAwaited
  <2>1. ASSUME CompletionInv, PcInv, AwaitedInv
        PROVE  /\ pc_state = "response" <=> RxQueued \/ RxRunning
               /\ pc_state = "completion" <=> Open
               /\ Open <=> TimerArmed \/ TimerQueued \/ TimerRunning
    BY <2>1 DEF CompletionInv, OneCompletionUnderWay, PcInv, AwaitedInv
  <2> QED BY <2>1 DEF PcIsAwaited
<1> QED BY <1>4, <1>5, PTL
=============================================================================
