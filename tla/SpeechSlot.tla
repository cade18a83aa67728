------------------------------ MODULE SpeechSlot ------------------------------
(***************************************************************************)
(* Speech transcription, one at a time: SpeechTranscriptionService         *)
(* (application/speech-transcription-service.ts).  A request reads its     *)
(* audio, waits for the slot in line and forwards.  Whoever releases the   *)
(* slot grants it to the first in line, who goes on only later: in between *)
(* its abort may have come first.                                          *)
(***************************************************************************)
EXTENDS SequencesExt

CONSTANTS SpeechRequests,
          WaitingRequests  \* SPEECH_LIMITS.waitingRequests

ASSUME SpeechAssumption == WaitingRequests \in Nat

VARIABLES
  speech,      \* request -> "none", "reading", "waiting", "forwarding" or "over"
  forwarding,  \* the slot is taken
  slotLine,    \* waiting: requests that have not been granted it
  cutOff,      \* requests whose client, deadline or service has given up
  speechClosed

speechVars == <<speech, forwarding, slotLine, cutOff, speechClosed>>

SpeechInit ==
  /\ speech = [r \in SpeechRequests |-> "none"] /\ forwarding = FALSE /\ slotLine = <<>>
  /\ cutOff = {} /\ speechClosed = FALSE

Admitted == {r \in SpeechRequests : speech[r] \notin {"none", "over"}}
SpeechGoes(r, stage) == speech' = [speech EXCEPT ![r] = stage]

(* release(): the first in line is granted the slot, or it is free.        *)
ReleaseSlot ==
  IF slotLine = <<>> THEN forwarding' = FALSE /\ UNCHANGED slotLine
  ELSE slotLine' = Tail(slotLine) /\ UNCHANGED forwarding

----------------------------------------------------------------------------
Transcribe(r) ==
  /\ speech[r] = "none"
  /\ SpeechGoes(r, IF speechClosed \/ Cardinality(Admitted) >= 1 + WaitingRequests THEN "over" ELSE "reading")
  /\ UNCHANGED <<forwarding, slotLine, cutOff, speechClosed>>

(* prepare() and turn(): the slot is taken, or the request gets in line.   *)
AsksForSlot(r) ==
  /\ speech[r] = "reading"
  /\ \/ SpeechGoes(r, "over") /\ UNCHANGED <<forwarding, slotLine>>
     \/ ~forwarding /\ forwarding' = TRUE /\ SpeechGoes(r, "forwarding") /\ UNCHANGED slotLine
     \/ /\ forwarding /\ SpeechGoes(r, "waiting")
        /\ slotLine' = Append(slotLine, r) /\ UNCHANGED forwarding
  /\ UNCHANGED <<cutOff, speechClosed>>

(* A granted request goes on, unless its abort was there first.            *)
SpeechGranted(r) ==
  /\ speech[r] = "waiting" /\ r \notin ToSet(slotLine) /\ r \notin cutOff
  /\ SpeechGoes(r, "forwarding")
  /\ UNCHANGED <<forwarding, slotLine, cutOff, speechClosed>>

(* Mutant: only one that is still in line has anything to give back.       *)
AbandonsLine(r) ==
  /\ speech[r] = "waiting" /\ r \in cutOff /\ SpeechGoes(r, "over")
  /\ slotLine' = RemoveFirst(slotLine, r) /\ UNCHANGED forwarding
  /\ UNCHANGED <<cutOff, speechClosed>>

(* abandon(): it leaves the line, or passes on what it was granted.        *)
Abandons(r) ==
  /\ speech[r] = "waiting" /\ r \in cutOff /\ SpeechGoes(r, "over")
  /\ IF r \in ToSet(slotLine)
     THEN slotLine' = RemoveFirst(slotLine, r) /\ UNCHANGED forwarding
     ELSE ReleaseSlot
  /\ UNCHANGED <<cutOff, speechClosed>>

(* forward() returns or throws.                                            *)
Forwarded(r) ==
  /\ speech[r] = "forwarding" /\ SpeechGoes(r, "over") /\ ReleaseSlot
  /\ UNCHANGED <<cutOff, speechClosed>>

CutOff(r) ==
  /\ r \in Admitted \ cutOff /\ cutOff' = cutOff \cup {r}
  /\ UNCHANGED <<speech, forwarding, slotLine, speechClosed>>

CloseSpeech ==
  /\ ~speechClosed /\ speechClosed' = TRUE /\ cutOff' = cutOff \cup Admitted
  /\ UNCHANGED <<speech, forwarding, slotLine>>

SpeechNext ==
  \/ \E r \in SpeechRequests :
       Transcribe(r) \/ AsksForSlot(r) \/ SpeechGranted(r) \/ Abandons(r) \/ Forwarded(r) \/ CutOff(r)
  \/ CloseSpeech

SpeechSpec == SpeechInit /\ [][SpeechNext]_speechVars

----------------------------------------------------------------------------
SpeechTypeOK ==
  /\ speech \in [SpeechRequests -> {"none", "reading", "waiting", "forwarding", "over"}]
  /\ forwarding \in BOOLEAN /\ slotLine \in Seq(SpeechRequests)
  /\ cutOff \in SUBSET SpeechRequests /\ speechClosed \in BOOLEAN

Holders == {r \in SpeechRequests : speech[r] = "forwarding" \/ (speech[r] = "waiting" /\ r \notin ToSet(slotLine))}

(* The slot is held by one request whenever it is taken, so that it is     *)
(* neither shared nor lost with a request that was granted it and aborted  *)
(* at the same time; and nobody is in line for a free slot.                *)
SpeechSlotOwned ==
  /\ Cardinality(Holders) = IF forwarding THEN 1 ELSE 0
  /\ \A k \in DOMAIN slotLine : forwarding /\ speech[slotLine[k]] = "waiting"
=============================================================================
