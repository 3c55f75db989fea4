------------------------------ MODULE PinStore ------------------------------
(***************************************************************************)
(* CertificatePinStore of dc-transport: the fingerprints one process has   *)
(* loaded, the file they are kept in and the temporary file a save goes    *)
(* through, which other processes of the same user may save through at the *)
(* same time: there is no lock.  The caller that shows a fingerprint and   *)
(* asks its user is not in the repository.                                 *)
(***************************************************************************)
EXTENDS Naturals, FiniteSets

CONSTANTS
  Endpoint,
  Fingerprint,
  NoPin,
  Missing,        \* a .tmp file that is not there
  Torn,           \* a file cut off within a line
  Faults          \* what the environment may do in an instance

ASSUME PinAssumption == NoPin \notin Fingerprint

VARIABLES
  pins,           \* the map in memory
  saving,         \* step of save(): idle, write or rename
  pin_file,       \* the map on disk
  temporary,      \* contents of the .tmp file
  confirmed       \* history: what the user has confirmed

pinVars == <<pins, saving, pin_file, temporary, confirmed>>

Pins == [Endpoint -> Fingerprint \cup {NoPin}]
NoPins == [e \in Endpoint |-> NoPin]

PinInit ==
  /\ pins = NoPins
  /\ saving = "idle"
  /\ pin_file = NoPins
  /\ temporary = Missing
  /\ confirmed = {}

\* A file that does not exist reads as no pins; one that ends within a line is an
\* error, and the process does not start.
LoadPins ==
  /\ pin_file # Torn
  /\ pins' = pin_file

\* Mutant: recorded before the user was asked.
VerifyOrRecord_Unasked(e, actual, confirm) ==
  /\ saving = "idle"
  /\ IF pins[e] = NoPin
     THEN /\ pins' = [pins EXCEPT ![e] = actual]
          /\ saving' = "write"
          /\ confirmed' = IF confirm THEN confirmed \cup {<<e, actual>>} ELSE confirmed
     ELSE UNCHANGED <<pins, saving, confirmed>>
  /\ UNCHANGED <<pin_file, temporary>>

\* Only a new endpoint the user confirms changes the store; a known one is
\* compared, and a different fingerprint refused.
VerifyOrRecord(e, actual, confirm) ==
  /\ saving = "idle"
  /\ IF confirm /\ pins[e] = NoPin
     THEN /\ pins' = [pins EXCEPT ![e] = actual]
          /\ saving' = "write"
          /\ confirmed' = confirmed \cup {<<e, actual>>}
     ELSE UNCHANGED <<pins, saving, confirmed>>
  /\ UNCHANGED <<pin_file, temporary>>

\* What a write of the map may leave that was cut off: complete lines of it, or a
\* part of a line behind them.
CutOff(map) == {m \in Pins : \A e \in Endpoint : m[e] \in {map[e], NoPin}} \cup {Torn}

\* save: the whole map into the .tmp file, which then replaces the pin file.
WritePins ==
  /\ saving = "write"
  /\ temporary' = pins
  /\ saving' = "rename"
  /\ UNCHANGED <<pins, pin_file, confirmed>>

\* A failed write: verify_or_record returns the error, the pin stays in memory.
WritePinsFails ==
  /\ "SaveFails" \in Faults
  /\ saving = "write"
  /\ temporary' \in CutOff(pins) \cup {temporary}
  /\ saving' = "idle"
  /\ UNCHANGED <<pins, pin_file, confirmed>>

\* The rename takes whatever is in the .tmp file by then.
RenamePins ==
  /\ saving = "rename"
  /\ temporary # Missing
  /\ pin_file' = temporary
  /\ temporary' = Missing
  /\ saving' = "idle"
  /\ UNCHANGED <<pins, confirmed>>

\* Another process has renamed the .tmp file away.
RenamePinsFails ==
  /\ saving = "rename"
  /\ temporary = Missing
  /\ saving' = "idle"
  /\ UNCHANGED <<pins, pin_file, temporary, confirmed>>

\* The process ends, at whichever step of a save: memory is gone, a write may be
\* cut off.
LosePins ==
  /\ temporary' \in IF saving = "write" THEN CutOff(pins) \cup {temporary} ELSE {temporary}
  /\ saving' = "idle"
  /\ pins' = NoPins
  /\ UNCHANGED <<pin_file, confirmed>>

\* Another process of the same user saves: what it loaded, however long ago, and
\* what its user has confirmed, whole or cut off, through the same .tmp file.
HeldElsewhere == {map \in Pins : \A e \in Endpoint : map[e] # NoPin => <<e, map[e]>> \in confirmed}

NeighbourWrites ==
  /\ "Neighbour" \in Faults
  /\ temporary' \in HeldElsewhere \cup {Torn}
  /\ UNCHANGED <<pins, saving, pin_file, confirmed>>

NeighbourRenames ==
  /\ "Neighbour" \in Faults
  /\ temporary # Missing
  /\ pin_file' = temporary
  /\ temporary' = Missing
  /\ UNCHANGED <<pins, saving, confirmed>>

-----------------------------------------------------------------------------
PinTypeOK ==
  /\ pins \in Pins
  /\ saving \in {"idle", "write", "rename"}
  /\ pin_file \in Pins \cup {Torn}
  /\ temporary \in Pins \cup {Missing, Torn}
  /\ confirmed \subseteq Endpoint \X Fingerprint

\* A pin, in memory or on disk, is a fingerprint the user has confirmed for that
\* endpoint, whatever crashed, failed or was saved by another process in between
\* (lib.rs:357-359).
PinsAreConfirmed ==
  \A e \in Endpoint : \A map \in {pins, pin_file} \ {Torn} :
    map[e] # NoPin => <<e, map[e]>> \in confirmed

\* Once verify_or_record has returned, what the process trusts is on disk: the
\* next process does not ask again.  A failed save breaks it, and so does another
\* process that saves an older map.
PinIsDurable ==
  saving = "idle" =>
    \A e \in Endpoint : pins[e] # NoPin => pin_file # Torn /\ pin_file[e] = pins[e]
=============================================================================
