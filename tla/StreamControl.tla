---------------------------- MODULE StreamControl ----------------------------
(***************************************************************************)
(* The atomics that the three tasks of a host stream share (struct         *)
(* StreamControl): the capture/encode thread, the sender task and the      *)
(* control task.  Every operator below is ONE atomic access; a function of *)
(* the source that makes several accesses is several actions of the task   *)
(* that calls it.                                                          *)
(***************************************************************************)
EXTENDS Integers, Sequences

CONSTANTS
  MinRate, MaxRate,   \* bitrate / fps of a RateProfile, as one level
  Faults              \* which of the environment's choices below may happen

(***************************************************************************)
(* The environment's choices.                                              *)
(*   Loss              a whole frame of the Datagram lane is lost          *)
(*   NaturalKeyframe   the encoder emits an IDR nobody asked for           *)
(*   EncoderSkip       encode() returns Skipped                            *)
(*   OversizedRegion   a region update exceeds REGION_UPDATE_MAX_BYTES     *)
(*   OversizedFrame    an inter frame exceeds the Datagram fragment limit  *)
(*   InterDecodeError  the viewer's decoder rejects an inter frame         *)
(*   KeyDecodeError    the viewer's decoder rejects a keyframe             *)
(*   EarlyAck          an acknowledgement is handled before the sender     *)
(*                     task has executed the statements after its send     *)
(*   RetransmitMiss    a MediaNack asks for an update the cache has dropped*)
(*   InputError        an input event cannot be injected                   *)
(*   ConnectionLoss    the connection drops while the viewer is open       *)
(*   WindowClosed      the user closes the viewer's window                 *)
(*   CaptureError      the frame source, the detector or the encoder fails *)
(*   TaskCancelled     the host's runtime is dropped before the control    *)
(*                     task noticed that the connection is gone            *)
(***************************************************************************)
FaultNames == { "Loss", "NaturalKeyframe", "EncoderSkip", "OversizedRegion",
                "OversizedFrame", "InterDecodeError", "KeyDecodeError",
                "EarlyAck", "RetransmitMiss", "InputError", "ConnectionLoss", "WindowClosed",
                "CaptureError", "TaskCancelled" }

ASSUME RateAssumption  == MinRate \in Nat /\ MaxRate \in Nat /\ MinRate <= MaxRate
ASSUME FaultAssumption == Faults \subseteq FaultNames

VARIABLES
  keyframe_requested, \* a recovery keyframe is asked for and not yet taken
  recovery_pending,   \* recovery barrier: set by a request, cleared by an ack
  shutdown,
  target_rate         \* target_bitrate and target_fps

controlVars == <<keyframe_requested, recovery_pending, shutdown, target_rate>>

Rates == MinRate..MaxRate

\* reduce_stream_rate: never below the floor of the profile.
Reduce(rate)   == IF rate > MinRate THEN rate - 1 ELSE MinRate
\* increase_stream_rate: never above the ceiling of the profile.
Increase(rate) == IF rate < MaxRate THEN rate + 1 ELSE MaxRate

ControlTypeOK ==
  /\ keyframe_requested \in BOOLEAN
  /\ recovery_pending \in BOOLEAN
  /\ shutdown \in BOOLEAN
  /\ target_rate \in Rates

ControlInit ==
  /\ keyframe_requested = FALSE
  /\ recovery_pending = FALSE
  /\ shutdown = FALSE
  /\ target_rate \in Rates

-----------------------------------------------------------------------------
\* compare_exchange(false, true) of recovery_pending: request_keyframe and
\* request_lower_rate_keyframe give up when it fails.
BarrierFree  == ~recovery_pending
RaiseBarrier == recovery_pending' = TRUE  /\ UNCHANGED <<keyframe_requested, shutdown, target_rate>>
\* acknowledge_keyframe: whichever keyframe the acknowledgement was for.
LowerBarrier == recovery_pending' = FALSE /\ UNCHANGED <<keyframe_requested, shutdown, target_rate>>

StoreRequested == keyframe_requested' = TRUE /\ UNCHANGED <<recovery_pending, shutdown, target_rate>>
SwapRequested  == keyframe_requested' = FALSE /\ UNCHANGED <<recovery_pending, shutdown, target_rate>>
StoreShutdown  == shutdown' = TRUE /\ UNCHANGED <<keyframe_requested, recovery_pending, target_rate>>
UpdateRate(r)  == target_rate' = r /\ UNCHANGED <<keyframe_requested, recovery_pending, shutdown>>
=============================================================================
