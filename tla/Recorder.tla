------------------------------ MODULE Recorder ------------------------------
(***************************************************************************)
(* The stream recorder of ConsoleApplication1.cpp: it polls a live         *)
(* playlist, hands the lines of every answer to a recording and ends it    *)
(* when nothing came for too long.  The code of an answer is read before   *)
(* the transfer and so is always that of the transfer before.              *)
(***************************************************************************)
EXTENDS Naturals, Sequences, SequencesExt

CONSTANT MaxEmpty   \* polls without a segment that end it: 60 in the code

VARIABLES
  upstream,            \* external: live, or gone for good
  last_code,           \* what curl remembers of the last transfer, 0 for no answer
  firstdl, dlcount,    \* answers passed over; whether a list was recorded
  checknodowncount,
  recording,           \* the lines handed to putmsg, and those in the file
  recorder             \* polling or ended

recorderVars == <<upstream, last_code, firstdl, dlcount, checknodowncount, recording, recorder>>

RecorderInit ==
  /\ upstream = "live" /\ last_code = 0 /\ firstdl = 0 /\ dlcount = 0
  /\ checknodowncount = 0 /\ recording = [handed |-> <<>>, file |-> <<>>] /\ recorder = "polling"

m3u8 == ""   \* the recording's name, which nothing sets

\* Bound: headers, or segments, in a row count as one line; end marks do not.
Line(lines, l) ==
  IF l # "endlist" /\ lines # <<>> /\ Last(lines) = l THEN lines ELSE Append(lines, l)

\* putmsg: every line opens the file anew, and under no name none opens.
PutMsg(lines, l) ==
  [handed |-> Line(lines.handed, l),
   file |-> IF m3u8 = "" THEN lines.file ELSE Line(lines.file, l)]

\* gettsurl: the header is recorded with the first list only, a segment every
\* time it is listed; with an answer that lists none nothing is.
GetTsUrl(lines, list) ==
  LET headed == IF dlcount = 0 /\ list # "none" THEN PutMsg(lines, "header") ELSE lines
  IN IF list = "segments" THEN PutMsg(headed, "segments") ELSE headed

\* The end of a round.  g_maxduration is never set, so isMAX never rises.
EndRound(added, lines) ==
  LET count == IF added THEN 0 ELSE checknodowncount + 1
  IN /\ checknodowncount' = count
     /\ IF count >= MaxEmpty
        THEN recording' = PutMsg(lines, "endlist") /\ recorder' = "ended"
        ELSE recording' = lines /\ UNCHANGED recorder

\* Slip: a failed transfer is tried again at once and not counted.
TransferUncounted ==
  /\ recorder = "polling" /\ last_code' \in {0, 200, 404}
  /\ UNCHANGED <<upstream, firstdl, dlcount, checknodowncount, recording, recorder>>

\* A transfer that failed; it may have got as far as a code.
TransferFails ==
  /\ recorder = "polling" /\ last_code' \in {0, 200, 404}
  /\ EndRound(FALSE, recording)
  /\ UNCHANGED <<upstream, firstdl, dlcount>>

\* A transfer that succeeded, judged by the code of the one before: after
\* none it is thrown away without a pause, after an error it ends the
\* recording whatever it brought, and the first after a 200 is passed over.
TransferEnds(code, list) ==
  /\ recorder = "polling"
  /\ last_code' = code
  /\ \/ last_code = 0 /\ UNCHANGED <<firstdl, dlcount, checknodowncount, recording, recorder>>
     \/ /\ last_code = 200 /\ firstdl' = 1
        /\ IF firstdl = 0 THEN UNCHANGED dlcount /\ EndRound(FALSE, recording)
           ELSE dlcount' = 1 /\ EndRound(list = "segments", GetTsUrl(recording, list))
     \/ /\ last_code \notin {0, 200}
        /\ recording' = PutMsg(recording, "endlist") /\ recorder' = "ended"
        /\ UNCHANGED <<firstdl, dlcount, checknodowncount>>
  /\ UNCHANGED upstream

\* External: the stream is over, and nothing but errors comes from now on.
StreamEnds ==
  /\ upstream = "live" /\ upstream' = "gone"
  /\ UNCHANGED <<last_code, firstdl, dlcount, checknodowncount, recording, recorder>>

Poll ==
  \/ TransferFails
  \/ TransferEnds(404, "none")
  \/ upstream = "live" /\ \E list \in {"empty", "segments"} : TransferEnds(200, list)

RecorderNext == Poll \/ StreamEnds

-----------------------------------------------------------------------------
(* Properties *)

\* Once the stream is gone the recorder ends, whatever mixture of failures and
\* error pages it meets with codes that are one transfer late, and hands its
\* end mark to putmsg as its last line and once only.
RecorderEnds ==
  LET handed == recording.handed
  IN upstream = "gone" ~>
       /\ recorder = "ended" /\ Last(handed) = "endlist"
       /\ \A i \in DOMAIN handed : handed[i] = "endlist" => i = Len(handed)

=============================================================================
