--------------------------- MODULE PaDataManager ---------------------------
(* The send state machine of src/core/pa_data_manager.c as operators on its    *)
(* context structure. It never touches hardware: pa_service drives it.         *)
EXTENDS PaCmdParser

CONSTANT PA_BAAS_OVERHEAD     \* what main() passes to pa_service_init()

ASSUME OverheadAssumption == PA_BAAS_OVERHEAD \in 0 .. (BYTE - 1)

PA_STATE_IDLE     == "IDLE"
PA_STATE_PENDING  == "PENDING"
PA_STATE_COMPLETE == "COMPLETE"

InitContext ==
  [state |-> PA_STATE_IDLE, current_sid |-> 0, data |-> << >>]

\* data_length is Len(data): only those bytes of the array are ever read.
AvailableBytes ==
  IF PA_BAAS_OVERHEAD >= PA_MAX_DATA_SIZE THEN 0
  ELSE PA_MAX_DATA_SIZE - PA_BAAS_OVERHEAD

\* Mutant: a request is accepted whatever the state.
SubmitResultAnyState(ctx, data) ==
  IF Len(data) > AvailableBytes THEN PA_RESULT_DATA_TOO_LARGE ELSE PA_RESULT_SUCCESS

SubmitResult(ctx, data) ==
  IF ctx.state # PA_STATE_IDLE THEN PA_RESULT_BUSY
  ELSE IF Len(data) > AvailableBytes THEN PA_RESULT_DATA_TOO_LARGE
  ELSE PA_RESULT_SUCCESS

\* pa_data_mgr_submit(): the context is written only when it accepts.
Submit(ctx, sid, data) ==
  IF SubmitResult(ctx, data) = PA_RESULT_SUCCESS
  THEN [state |-> PA_STATE_PENDING, current_sid |-> sid, data |-> data]
  ELSE ctx

\* pa_data_mgr_on_pa_interval(): TRUE when it moves PENDING to COMPLETE.
IntervalTransitions(ctx) == ctx.state = PA_STATE_PENDING

OnPaInterval(ctx) ==
  IF IntervalTransitions(ctx) THEN [ctx EXCEPT !.state = PA_STATE_COMPLETE]
  ELSE ctx

\* Mutant: the reset forgets the state.
ResetDataOnly(ctx) == [ctx EXCEPT !.data = << >>]

\* pa_data_mgr_reset()
Reset(ctx) ==
  [state |-> PA_STATE_IDLE, current_sid |-> ctx.current_sid, data |-> << >>]
=============================================================================
