------------------------------- MODULE Prereg -------------------------------
(***************************************************************************)
(* Pre-registration: gates/prereg_seal.py, which seals a payload in        *)
(* prereg.json or a document in its sidecar, and gates/prereg_gate.py,     *)
(* which lets an experiment run when one of the files it names is sealed.  *)
(*                                                                         *)
(* Sealers and gates run at once, step by step, while the user edits what  *)
(* they read. A text is the number of the edit that wrote it, its digest   *)
(* the same number; only the document has a sidecar here.                  *)
(***************************************************************************)
EXTENDS Hook

CONSTANTS
  Sealer,   \* the processes that run prereg_seal.py
  Judged,   \* the calls prereg_gate.py judges, which meet in no file; other gates the rest
  MaxEdits  \* bound: texts the user writes

ASSUME JudgedAssumption == Judged \subseteq Call
ASSUME BoundAssumption == MaxFull \in Nat /\ MaxEdits \in Nat

Candidate == {"json", "md"}

VARIABLES
  draft,   \* the payload that waits to be sealed
  json,    \* prereg.json
  doc,     \* the document
  side,    \* its sidecar
  job,     \* what each sealer is doing
  probe,   \* what each call has still to look at, and what it holds
  told,    \* the digests new has reported as sealed, raced apart
  raced,   \* two runs of new were past the check at once
  edits,   \* number of texts the user has written
  seen     \* for each call, the candidates it names that were sealed beyond dispute
           \* all the time it was judged, and those sealed at some time of it

files == <<draft, json, doc, side>>
sealVars == <<job, told, raced>>
preregVars == <<draft, json, doc, side, job, probe, told, raced, edits>>
vars == <<hookVars, preregVars, seen>>

NoText == 0
Absent == [state |-> "absent", digest |-> NoText, payload |-> NoText]
Broken == [state |-> "broken", digest |-> NoText, payload |-> NoText]
Whole(d, p) == [state |-> "whole", digest |-> d, payload |-> p]

Idle == [at |-> "idle", digest |-> NoText]
Unseen == [always |-> {}, ever |-> {}]
NoProbe == [left |-> {}, want |-> "none", digest |-> NoText, found |-> {}]

Init ==
  /\ HookInit
  /\ draft = NoText /\ json = Absent /\ side = Absent
  /\ doc = [text |-> NoText, frozen |-> FALSE]
  /\ job = [s \in Sealer |-> Idle]
  /\ probe = [c \in Call |-> NoProbe]
  /\ told = {}
  /\ raced = FALSE
  /\ edits = 0
  /\ seen = [c \in Call |-> Unseen]

-----------------------------------------------------------------------------
(* prereg_seal.py new                                                      *)

Sealing(s) == job[s].at \in {"open", "write"}

NewReads(s) ==
  /\ job[s] = Idle /\ draft # NoText
  /\ job' = [job EXCEPT ![s] = [at |-> "check", digest |-> draft]]
  /\ UNCHANGED <<files, told, raced>>

\* Mutant: prereg.json is not looked for.
NewChecksNot(s) ==
  /\ job[s].at = "check"
  /\ job' = [job EXCEPT ![s].at = "open"]
  /\ raced' = (raced \/ \E t \in Sealer \ {s} : Sealing(t))
  /\ UNCHANGED <<files, told>>

\* "a seal is never overwritten"
NewChecks(s) ==
  /\ job[s].at = "check"
  /\ job' = [job EXCEPT ![s] = IF json = Absent THEN [@ EXCEPT !.at = "open"] ELSE Idle]
  /\ raced' = (raced \/ (json = Absent /\ \E t \in Sealer \ {s} : Sealing(t)))
  /\ UNCHANGED <<files, told>>

\* Mutant: the file is made by its first write.
NewOpensLate(s) ==
  /\ job[s].at = "open"
  /\ json' = [Broken EXCEPT !.state = "unopened"]
  /\ job' = [job EXCEPT ![s].at = "write"]
  /\ UNCHANGED <<draft, doc, side, told, raced>>

NewOpens(s) ==
  /\ job[s].at = "open"
  /\ json' = Broken
  /\ job' = [job EXCEPT ![s].at = "write"]
  /\ UNCHANGED <<draft, doc, side, told, raced>>

\* Over what another has written since, of which a tail may stay.
NewWrites(s) ==
  /\ job[s].at = "write"
  /\ json' \in {Whole(job[s].digest, job[s].digest)}
                 \cup (IF json.state = "whole" THEN {Broken} ELSE {})
  /\ told' = IF raced THEN told ELSE told \cup {job[s].digest}
  /\ job' = [job EXCEPT ![s] = Idle]
  /\ UNCHANGED <<draft, doc, side, raced>>

(* prereg_seal.py sidecar                                                  *)

SidecarReads(s) ==
  /\ job[s] = Idle /\ doc.text # NoText
  /\ job' = [job EXCEPT ![s] = [at |-> "openside", digest |-> doc.text]]
  /\ UNCHANGED <<files, told, raced>>

SidecarOpens(s) ==
  /\ job[s].at = "openside"
  /\ side' = Broken
  /\ job' = [job EXCEPT ![s].at = "writeside"]
  /\ UNCHANGED <<draft, json, doc, told, raced>>

\* Two sidecars have one length.
SidecarWrites(s) ==
  /\ job[s].at = "writeside"
  /\ side' = Whole(job[s].digest, NoText)
  /\ job' = [job EXCEPT ![s] = Idle]
  /\ UNCHANGED <<draft, json, doc, told, raced>>

SealerDies(s) ==
  /\ job[s] # Idle
  /\ job' = [job EXCEPT ![s] = Idle]
  /\ UNCHANGED <<files, told, raced>>

SealStep(s) ==
  \/ NewReads(s) \/ NewChecks(s) \/ NewOpens(s) \/ NewWrites(s)
  \/ SidecarReads(s) \/ SidecarOpens(s) \/ SidecarWrites(s) \/ SealerDies(s)

(* The user, who removes no seal but a broken one.                         *)

Edit ==
  /\ edits < MaxEdits
  /\ edits' = edits + 1
  /\ \/ draft' = edits' /\ UNCHANGED <<json, doc, side>>
     \/ /\ \E f \in BOOLEAN : doc' = [text |-> edits', frozen |-> f]
        /\ UNCHANGED <<draft, json, side>>
     \/ /\ json.state = "whole"
        /\ json' = [json EXCEPT !.payload = edits']
        /\ UNCHANGED <<draft, doc, side>>

Discard ==
  /\ \A s \in Sealer : job[s] = Idle
  /\ \/ json = Broken /\ json' = Absent /\ UNCHANGED side
     \/ side = Broken /\ side' = Absent /\ UNCHANGED json
  /\ UNCHANGED <<draft, doc, edits>>

-----------------------------------------------------------------------------
(* prereg_gate.py                                                          *)

\* Unreadable, no experiment, or exempt (a line of its own in the log of
\* exemptions, which nothing reads).
NotJudged(c) == At(c, "idle") /\ c \in Judged /\ (\E v \in {"mute", "allowed", "error"} : Give(c, v))

\* The other gates keep no state: file_governance.py and dispatch_rung.py.
GovernanceJudges(c) == At(c, "idle") /\ c \notin Judged /\ (\E v \in Verdict \cup {"mute"} : Give(c, v))
RungJudges(c) == At(c, "idle") /\ c \notin Judged /\ (\E v \in Verdict \cup {"mute"} : Give(c, v))

\* An experiment, and the files it names.
Experiment(c, named) ==
  /\ At(c, "idle") /\ c \in Judged
  /\ call' = [call EXCEPT ![c].at = "judge"]
  /\ probe' = [probe EXCEPT ![c] = [NoProbe EXCEPT !.left = named]]
  /\ UNCHANGED <<log, ragged, full>>

\* set(...) has no order: any file still left comes next.
Next_(c, x) == At(c, "judge") /\ x \in probe[c].left

Found(c, x) ==
  /\ Give(c, "allowed")
  /\ probe' = [probe EXCEPT ![c] = [NoProbe EXCEPT !.found = {x}]]

\* Mutant: the first file that is not sealed decides.
RejectedAtOnce(c, x) ==
  /\ Give(c, "blocked")
  /\ probe' = [probe EXCEPT ![c] = NoProbe]

Rejected(c, x) ==
  /\ probe' = [probe EXCEPT ![c].left = @ \ {x}, ![c].want = "none", ![c].digest = NoText]
  /\ UNCHANGED hookVars

Machine(f) == f.state = "whole" /\ f.digest = f.payload

JudgesJson(c) ==
  /\ Next_(c, "json") /\ probe[c].want = "none"
  /\ IF Machine(json) THEN Found(c, "json") ELSE Rejected(c, "json")

\* A file cut inside a character raises what sealed does not catch.
JsonRaises(c) ==
  /\ Next_(c, "json") /\ probe[c].want = "none"
  /\ json = Broken
  /\ Give(c, "error")
  /\ UNCHANGED probe

\* The sidecar is looked for and read before the document is.
JudgesSidecar(c) ==
  /\ Next_(c, "md") /\ probe[c].want = "none"
  /\ IF doc.text = NoText \/ side = Broken
     THEN Rejected(c, "md")
     ELSE /\ probe' = [probe EXCEPT ![c].want = IF side = Absent THEN "marker" ELSE "digest",
                                    ![c].digest = side.digest]
          /\ UNCHANGED hookVars

JudgesDocument(c) ==
  /\ Next_(c, "md") /\ probe[c].want # "none"
  /\ IF (probe[c].want = "marker" /\ doc.frozen)
        \/ (probe[c].want = "digest" /\ doc.text = probe[c].digest)
     THEN Found(c, "md") ELSE Rejected(c, "md")

NoneSealed(c) ==
  /\ At(c, "judge") /\ probe[c].left = {}
  /\ Give(c, "blocked")
  /\ UNCHANGED probe

GateStep(c) ==
  \/ \E named \in SUBSET Candidate : Experiment(c, named)
  \/ JudgesJson(c) \/ JsonRaises(c) \/ JudgesSidecar(c) \/ JudgesDocument(c) \/ NoneSealed(c)
  \/ /\ NotJudged(c) \/ GovernanceJudges(c) \/ RungJudges(c) \/ HookStep(c)
     /\ probe' = [probe EXCEPT ![c] = NoProbe]

-----------------------------------------------------------------------------

Matches == side.state = "whole" /\ side.digest = doc.text

\* Sealed by one of the three seals of prereg_gate.py:10-13.
Sealed ==
  {x \in Candidate :
     \/ x = "json" /\ Machine(json)
     \/ x = "md" /\ (doc.frozen \/ Matches)}

\* And no sidecar contradicts it.
Undisputed == Sealed \ (IF side = Absent \/ Matches THEN {} ELSE {"md"})

\* History only.
Watched ==
  seen' = [c \in Call |->
    IF call'[c].at = "judge"
    THEN IF At(c, "judge")
         THEN [always |-> seen[c].always \cap Undisputed', ever |-> seen[c].ever \cup Sealed']
         ELSE [always |-> Undisputed' \cap probe'[c].left, ever |-> Sealed']
    ELSE IF At(c, "judge") \/ call'[c] = call[c] THEN seen[c] ELSE Unseen]

Next ==
  /\ \/ (\E s \in Sealer : SealStep(s)) /\ UNCHANGED <<hookVars, probe, edits>>
     \/ (Edit \/ Discard) /\ UNCHANGED <<hookVars, probe, sealVars>>
     \/ (\E c \in Call : GateStep(c)) /\ UNCHANGED <<files, sealVars, edits>>
  /\ Watched

Spec == Init /\ [][Next]_vars

-----------------------------------------------------------------------------

Text == 0..MaxEdits
File == [state : {"absent", "broken", "whole"}, digest : Text, payload : Text]

\* Type invariant: the states of the files, of the sealers and of the gates.
TypeOK ==
  /\ HookTypeOK
  /\ draft \in Text /\ json \in File /\ side \in File
  /\ doc \in [text : Text, frozen : BOOLEAN]
  /\ job \in [Sealer -> [at : {"idle", "check", "open", "write", "openside", "writeside"},
                         digest : Text]]
  /\ probe \in [Call -> [left : SUBSET Candidate,
                         want : {"none", "marker", "digest"}, digest : Text,
                         found : SUBSET Candidate]]
  /\ told \subseteq Text
  /\ raced \in BOOLEAN
  /\ edits \in Text
  /\ seen \in [Call -> [always : SUBSET Candidate, ever : SUBSET Candidate]]

\* prereg_seal.py:63 "a seal is never overwritten": the digest new has reported
\* stays in prereg.json through tampering, deaths and later runs, unless two runs
\* were past the check at once.
SealKept == \A d \in told : json.state = "whole" /\ json.digest = d

\* prereg_gate.py:9: while files change under it, the gate blocks only when none of
\* the files the call names was sealed all along, and lets an experiment pass for
\* the sake of a file that was sealed at one moment of the judging at least, though
\* it reads a sidecar and its document one after the other. A call it lets pass by
\* an error of its own (JsonRaises, SayFails) has no such file.
VerdictEarned ==
  \A c \in Call :
    /\ call[c].verdict = "blocked" /\ At(c, "say") => seen[c].always = {}
    /\ probe[c].found \subseteq seen[c].ever
=============================================================================
