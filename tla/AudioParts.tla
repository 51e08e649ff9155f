----------------------------- MODULE AudioParts -----------------------------
(* The parts of the audio side, which share no state: one of them runs in a       *)
(* behaviour and the others stay as they are, so that a run has the sum of their   *)
(* states and not the product; what is fair of a part is disabled in its initial   *)
(* states.                                                                         *)
EXTENDS SourceStreaming, LeAudioRx, VolumeRender, Lc3Streamer, SdPlayback,
        SdListing

VARIABLE part
audioPartsVars == <<part, streamingVars, rxVars, renderVars, lc3Vars, sdVars, listingVars>>

AudioInit == /\ part \in {"source", "rx", "volume", "lc3", "sd", "listing"}
             /\ StreamingInit /\ RxInit /\ RenderInit /\ Lc3Init /\ SdInit
             /\ ListingInit

Runs(p, next, kept) == IF part = p THEN next ELSE kept
AudioNext == /\ UNCHANGED part
             /\ Runs("source", StreamingNext, UNCHANGED streamingVars)
             /\ Runs("rx", RxNext, UNCHANGED rxVars)
             /\ Runs("volume", RenderNext, UNCHANGED renderVars)
             /\ Runs("lc3", Lc3Next, UNCHANGED lc3Vars)
             /\ Runs("sd", SdNext, UNCHANGED sdVars)
             /\ Runs("listing", ListingNext, UNCHANGED listingVars)
AudioSpec == /\ AudioInit /\ [][AudioNext]_audioPartsVars
             /\ StreamingFairness /\ Lc3Fairness /\ SdFairness

\* The streams, queues, pools and ring buffers of the audio side, and a search of the card,
\* keep their types and sizes.
AudioTypesOK == /\ StreamingTypeOK /\ RxTypeOK /\ RenderTypeOK /\ Lc3TypeOK /\ SdTypeOK
                /\ ListingTypeOK
=============================================================================
