---------------------------- MODULE PreregProofs ----------------------------
(* Theorems about the seals and the gate, for any number of sealers, calls *)
(* and texts.                                                              *)
EXTENDS Prereg, FiniteSetTheorems, TLAPS

-----------------------------------------------------------------------------
(* Types.                                                                  *)

SealType ==
  /\ draft \in Text /\ json \in File /\ side \in File
  /\ doc \in [text : Text, frozen : BOOLEAN]
  /\ job \in [Sealer -> [at : {"idle", "check", "open", "write", "openside", "writeside"},
                         digest : Text]]
  /\ told \subseteq Text
  /\ raced \in BOOLEAN
  /\ edits \in Text

ProbeType ==
  probe \in [Call -> [left : SUBSET Candidate, want : {"none", "marker", "digest"},
                      digest : Text, found : SUBSET Candidate]]

SeenType == seen \in [Call -> [always : SUBSET Candidate, ever : SUBSET Candidate]]

\* The type invariant is the types of the gates' contract, of the files and
\* their sealers, of what the gates hold and of what they saw.
LEMMA TypeParts == TypeOK <=> HookTypeOK /\ SealType /\ ProbeType /\ SeenType
  BY DEF TypeOK, SealType, ProbeType, SeenType

\* No text is a text, and what a file can hold without one has its type.
LEMMA Constants ==
  /\ NoText \in Text /\ MaxEdits \in Nat
  /\ Absent \in File /\ Broken \in File
  /\ \A d, p \in Text : Whole(d, p) \in File
  BY BoundAssumption DEF NoText, Text, Absent, Broken, Whole, File

\* A line is due only for a verdict.
Due == \A c \in Call : At(c, "say") \/ At(c, "record") => call[c].verdict \in Verdict

HookInv == HookTypeOK /\ Due

\* A call that comes to a verdict keeps the contract's types.
LEMMA GiveType ==
  ASSUME HookInv, NEW c \in Call, NEW v \in Verdict \cup {"mute"}, Give(c, v)
  PROVE  HookInv'
  <1>1. FirstStep(v) \in {"say", "record", "exit"} /\ (FirstStep(v) # "exit" => v \in Verdict)
    BY DEF FirstStep
  <1>2. HookTypeOK'
    BY <1>1, ZenonT(30) DEF HookInv, HookTypeOK, Give
  <1>3. Due'
    BY <1>1 DEF HookInv, HookTypeOK, Due, At, Give
  <1> QED
    BY <1>2, <1>3 DEF HookInv

\* So does every step of the contract.
LEMMA HookStepType ==
  ASSUME HookInv, NEW c \in Call, HookStep(c)
  PROVE  HookInv'
  <1> USE DEF HookInv
  <1>1. CASE Say(c)
    <2>1. HookTypeOK'
      BY <1>1 DEF Say, HookTypeOK
    <2>2. Due'
      BY <1>1 DEF Say, HookTypeOK, Due, At
    <2> QED
      BY <2>1, <2>2
  <1>2. CASE SayFails(c)
    BY <1>2, GiveType DEF SayFails, Verdict
  <1>3. CASE Record(c)
    <2>1. call' = [call EXCEPT ![c].at = "exit"] /\ ragged' = FALSE /\ full' = full
      BY <1>3 DEF Record
    <2>2. log' \subseteq Call \X Verdict
      <3>1. CASE ragged
        BY <1>3, <3>1 DEF Record, HookTypeOK
      <3>2. CASE ~ragged
        <4>1. log' = log \cup {<<c, call[c].verdict>>}
          BY <1>3, <3>2 DEF Record
        <4>2. call[c].verdict \in Verdict
          BY <1>3 DEF Record, Due
        <4> QED
          BY <4>1, <4>2 DEF HookTypeOK
      <3> QED
        BY <3>1, <3>2
    <2>3. HookTypeOK'
      BY <2>1, <2>2, ZenonT(30) DEF HookTypeOK
    <2>4. Due'
      BY <2>1 DEF HookTypeOK, Due, At
    <2> QED
      BY <2>3, <2>4
  <1>4. CASE RecordFails(c)
    <2>1. call' = [call EXCEPT ![c].at = "exit"] /\ full' = full + 1 /\ log' = log /\ full < MaxFull
      BY <1>4 DEF RecordFails
    <2>2. ragged' \in BOOLEAN
      BY <1>4 DEF RecordFails, HookTypeOK
    <2>3. full' \in 0..MaxFull
      BY <2>1, BoundAssumption DEF HookTypeOK
    <2>4. HookTypeOK'
      BY <2>1, <2>2, <2>3 DEF HookTypeOK
    <2>5. Due'
      BY <2>1 DEF HookTypeOK, Due, At
    <2> QED
      BY <2>4, <2>5
  <1>5. ASSUME NEW n \in {ALLOW, 1, BLOCK, 9}, NEW v \in {"none", "mute"},
               call' = [call EXCEPT ![c] = [at |-> "done", verdict |-> v, code |-> n]],
               UNCHANGED <<log, ragged, full>>
        PROVE  HookInv'
    <2>1. HookTypeOK'
      BY <1>5 DEF HookTypeOK
    <2>2. Due'
      BY <1>5 DEF HookTypeOK, Due, At
    <2> QED
      BY <2>1, <2>2
  <1>6. CASE Exit(c)
    <2>1. PICK n \in Code(call[c].verdict) :
            call' = [call EXCEPT ![c] = [at |-> "done", verdict |-> Left(@.verdict), code |-> n]]
      BY <1>6 DEF Exit
    <2>2. n \in {ALLOW, 1, BLOCK, 9}
      BY <2>1 DEF Code
    <2>3. Left(call[c].verdict) \in {"none", "mute"}
      BY DEF Left
    <2>4. call' = [call EXCEPT ![c] = [at |-> "done", verdict |-> Left(call[c].verdict), code |-> n]]
      BY <2>1 DEF HookTypeOK
    <2> QED
      BY <1>5, <1>6, <2>2, <2>3, <2>4 DEF Exit
  <1>7. CASE KillGate(c)
    BY <1>5, <1>7 DEF KillGate
  <1> QED
    BY <1>1, <1>2, <1>3, <1>4, <1>6, <1>7 DEF HookStep

\* A call goes to the judging of an experiment.
LEMMA ExperimentType ==
  ASSUME HookInv, NEW c \in Call, NEW named \in SUBSET Candidate, Experiment(c, named)
  PROVE  HookInv'
  <1>1. HookTypeOK'
    BY DEF HookInv, Experiment, HookTypeOK
  <1>2. Due'
    BY DEF HookInv, Experiment, HookTypeOK, Due, At
  <1> QED
    BY <1>1, <1>2 DEF HookInv

\* Every step of a sealer keeps the types of the files and of the sealers.
LEMMA SealStepType ==
  ASSUME SealType, NEW s \in Sealer, SealStep(s), UNCHANGED edits
  PROVE  SealType'
  <1>1. Idle \in [at : {"idle"}, digest : Text]
    BY Constants DEF Idle
  <1>2. CASE NewReads(s) \/ SidecarReads(s)
    <2>1. \E d \in Text, l \in {"check", "openside"} : job' = [job EXCEPT ![s] = [at |-> l, digest |-> d]]
      BY <1>2 DEF NewReads, SidecarReads, SealType
    <2>2. UNCHANGED <<files, told, raced>>
      BY <1>2 DEF NewReads, SidecarReads
    <2> QED
      BY <2>1, <2>2 DEF SealType, files
  <1>3. CASE NewChecks(s)
    <2>1. \/ job' = [job EXCEPT ![s] = Idle]
          \/ job' = [job EXCEPT ![s].at = "open"]
      BY <1>3 DEF NewChecks
    <2>2. raced' \in BOOLEAN /\ UNCHANGED <<files, told>>
      BY <1>3 DEF NewChecks, SealType
    <2>3. job' \in [Sealer -> [at : {"idle", "check", "open", "write", "openside", "writeside"},
                               digest : Text]]
      BY <1>1, <2>1 DEF SealType
    <2> QED
      BY <2>2, <2>3 DEF SealType, files
  <1>4. CASE NewOpens(s) \/ SidecarOpens(s)
    BY <1>4, Constants DEF NewOpens, SidecarOpens, SealType
  <1>5. CASE NewWrites(s)
    <2>1. job[s].digest \in Text
      BY DEF SealType
    <2>2. json' \in File
      BY <1>5, <2>1, Constants DEF NewWrites
    <2>3. told' \subseteq Text
      BY <1>5, <2>1 DEF NewWrites, SealType
    <2> QED
      BY <1>1, <1>5, <2>2, <2>3 DEF NewWrites, SealType
  <1>6. CASE SidecarWrites(s)
    <2>1. job[s].digest \in Text
      BY DEF SealType
    <2>2. side' \in File
      BY <1>6, <2>1, Constants DEF SidecarWrites
    <2> QED
      BY <1>1, <1>6, <2>2 DEF SidecarWrites, SealType
  <1>7. CASE SealerDies(s)
    BY <1>1, <1>7 DEF SealerDies, SealType, files
  <1> QED
    BY <1>2, <1>3, <1>4, <1>5, <1>6, <1>7 DEF SealStep

\* So does the user, who writes texts within the bound.
LEMMA UserType ==
  ASSUME SealType, Edit \/ Discard, UNCHANGED sealVars
  PROVE  SealType'
  <1>1. UNCHANGED <<job, told, raced>>
    BY DEF sealVars
  <1>2. CASE Edit
    <2>1. edits' \in Text
      BY <1>2, Constants DEF Edit, SealType, Text
    <2>2. CASE draft' = edits' /\ UNCHANGED <<json, doc, side>>
      BY <1>1, <2>1, <2>2 DEF SealType
    <2>3. CASE (\E f \in BOOLEAN : doc' = [text |-> edits', frozen |-> f]) /\ UNCHANGED <<draft, json, side>>
      BY <1>1, <2>1, <2>3 DEF SealType
    <2>4. CASE json' = [json EXCEPT !.payload = edits'] /\ UNCHANGED <<draft, doc, side>>
      <3>1. json' \in File
        BY <2>1, <2>4 DEF SealType, File
      <3> QED
        BY <1>1, <2>1, <2>4, <3>1 DEF SealType
    <2> QED
      BY <1>2, <2>2, <2>3, <2>4 DEF Edit
  <1>3. CASE Discard
    BY <1>1, <1>3, Constants DEF Discard, SealType
  <1> QED
    BY <1>2, <1>3

\* Every step of a gate keeps the types of the contract and of what gates hold.
LEMMA GateStepType ==
  ASSUME HookInv, SealType, ProbeType, NEW c \in Call, GateStep(c)
  PROVE  HookInv' /\ ProbeType'
  <1>1. NoProbe \in [left : SUBSET Candidate, want : {"none", "marker", "digest"},
                     digest : Text, found : SUBSET Candidate]
    BY Constants DEF NoProbe
  <1>2. ASSUME NEW x \in Candidate, Found(c, x) PROVE HookInv' /\ ProbeType'
    <2>1. HookInv'
      BY <1>2, GiveType DEF Found, Verdict
    <2>2. [NoProbe EXCEPT !.found = {x}]
            \in [left : SUBSET Candidate, want : {"none", "marker", "digest"},
                 digest : Text, found : SUBSET Candidate]
      BY <1>1 DEF NoProbe
    <2> QED
      BY <1>2, <2>1, <2>2 DEF Found, ProbeType
  <1>3. ASSUME NEW x \in Candidate, Rejected(c, x) PROVE HookInv' /\ ProbeType'
    <2>1. HookInv'
      BY <1>3 DEF Rejected, hookVars, HookInv, HookTypeOK, Due, At
    <2> QED
      BY <1>3, <2>1, Constants, ZenonT(30) DEF Rejected, ProbeType
  <1>4. ASSUME NEW named \in SUBSET Candidate, Experiment(c, named) PROVE HookInv' /\ ProbeType'
    <2>1. [NoProbe EXCEPT !.left = named]
            \in [left : SUBSET Candidate, want : {"none", "marker", "digest"},
                 digest : Text, found : SUBSET Candidate]
      BY <1>1 DEF NoProbe
    <2> QED
      BY <1>4, <2>1, ExperimentType DEF Experiment, ProbeType
  <1>5. CASE JudgesJson(c)
    BY <1>2, <1>3, <1>5 DEF JudgesJson, Candidate
  <1>6. CASE JsonRaises(c) \/ NoneSealed(c)
    <2>1. HookInv'
      BY <1>6, GiveType DEF JsonRaises, NoneSealed, Verdict
    <2> QED
      BY <1>6, <2>1 DEF JsonRaises, NoneSealed, ProbeType
  <1>7. CASE JudgesSidecar(c)
    <2>1. CASE doc.text = NoText \/ side = Broken
      BY <1>3, <1>7, <2>1 DEF JudgesSidecar, Candidate
    <2>2. CASE ~(doc.text = NoText \/ side = Broken)
      <3>1. PICK w \in {"marker", "digest"} :
              probe' = [probe EXCEPT ![c].want = w, ![c].digest = side.digest]
        BY <1>7, <2>2 DEF JudgesSidecar
      <3>2. side.digest \in Text
        BY DEF SealType, File
      <3>3. HookInv'
        BY <1>7, <2>2 DEF JudgesSidecar, hookVars, HookInv, HookTypeOK, Due, At
      <3> QED
        BY <3>1, <3>2, <3>3 DEF ProbeType
    <2> QED
      BY <2>1, <2>2
  <1>8. CASE JudgesDocument(c)
    BY <1>2, <1>3, <1>8 DEF JudgesDocument, Candidate
  <1>9. CASE /\ NotJudged(c) \/ GovernanceJudges(c) \/ RungJudges(c) \/ HookStep(c)
             /\ probe' = [probe EXCEPT ![c] = NoProbe]
    <2>1. HookInv'
      BY <1>9, GiveType, HookStepType DEF NotJudged, GovernanceJudges, RungJudges, Verdict
    <2> QED
      BY <1>1, <1>9, <2>1 DEF ProbeType
  <1> QED
    BY <1>4, <1>5, <1>6, <1>7, <1>8, <1>9 DEF GateStep

\* What was seen keeps its type whatever happens.
LEMMA SeenTypeStep ==
  ASSUME ProbeType', SeenType, Watched
  PROVE  SeenType'
  <1>1. Sealed' \subseteq Candidate /\ Undisputed' \subseteq Candidate
    BY DEF Sealed, Undisputed
  <1>2. ASSUME NEW c \in Call
        PROVE  \/ seen'[c] \in {seen[c], Unseen}
               \/ seen'[c] = [always |-> seen[c].always \cap Undisputed',
                              ever |-> seen[c].ever \cup Sealed']
               \/ seen'[c] = [always |-> Undisputed' \cap probe'[c].left, ever |-> Sealed']
    <2>1. CASE call'[c].at # "judge"
      BY <2>1 DEF Watched
    <2>2. CASE call'[c].at = "judge" /\ At(c, "judge")
      BY <2>2 DEF Watched
    <2>3. CASE call'[c].at = "judge" /\ ~At(c, "judge")
      BY <2>3 DEF Watched
    <2> QED
      BY <2>1, <2>2, <2>3
  <1>3. ASSUME NEW c \in Call PROVE seen'[c] \in [always : SUBSET Candidate, ever : SUBSET Candidate]
    <2>1. seen[c] \in [always : SUBSET Candidate, ever : SUBSET Candidate]
          /\ Unseen \in [always : SUBSET Candidate, ever : SUBSET Candidate]
      BY DEF SeenType, Unseen
    <2>2. /\ seen[c].always \cap Undisputed' \in SUBSET Candidate
          /\ seen[c].ever \cup Sealed' \in SUBSET Candidate
          /\ Undisputed' \cap probe'[c].left \in SUBSET Candidate
          /\ Sealed' \in SUBSET Candidate
      BY <1>1, <2>1
    <2>3. ASSUME NEW A \in SUBSET Candidate, NEW B \in SUBSET Candidate
          PROVE  [always |-> A, ever |-> B] \in [always : SUBSET Candidate, ever : SUBSET Candidate]
      OBVIOUS
    <2>4. CASE seen'[c] \in {seen[c], Unseen}
      BY <2>1, <2>4
    <2>5. CASE seen'[c] = [always |-> seen[c].always \cap Undisputed',
                           ever |-> seen[c].ever \cup Sealed']
      BY <2>2, <2>3, <2>5
    <2>6. CASE seen'[c] = [always |-> Undisputed' \cap probe'[c].left, ever |-> Sealed']
      BY <2>2, <2>3, <2>6
    <2> QED
      BY <1>2, <2>4, <2>5, <2>6
  <1> QED
    BY <1>3 DEF SeenType, Watched

\* The types, and what makes the lines of the log ones of a verdict.
TypeInv == HookInv /\ SealType /\ ProbeType /\ SeenType

\* The steps, each with what it leaves alone.
LEMMA Steps ==
  ASSUME Next
  PROVE  /\ \/ \E s \in Sealer : SealStep(s) /\ UNCHANGED <<hookVars, probe, edits>>
            \/ (Edit \/ Discard) /\ UNCHANGED <<hookVars, probe, sealVars>>
            \/ \E c \in Call : GateStep(c) /\ UNCHANGED <<files, sealVars, edits>>
         /\ Watched
  BY DEF Next

\* The types hold at the start.
LEMMA TypeInit == Init => TypeInv
  <1> SUFFICES ASSUME Init PROVE TypeInv
    OBVIOUS
  <1>1. HookInv
    <2>1. call = [c \in Call |-> [at |-> "idle", verdict |-> "none", code |-> ALLOW]]
          /\ log = {} /\ ragged = FALSE /\ full = 0
      BY DEF Init, HookInit
    <2>2. HookTypeOK
      <3>1. call \in [Call -> [at : {"idle", "judge", "say", "record", "exit", "done"},
                               verdict : Verdict \cup {"none", "mute"},
                               code : {ALLOW, 1, BLOCK, 9}]]
        BY <2>1
      <3>2. log \subseteq Call \X Verdict /\ ragged \in BOOLEAN
        BY <2>1
      <3>3. full \in 0..MaxFull
        BY <2>1, BoundAssumption
      <3> QED
        BY <3>1, <3>2, <3>3 DEF HookTypeOK
    <2>3. Due
      BY <2>1 DEF Due, At
    <2> QED
      BY <2>2, <2>3 DEF HookInv
  <1>2. SealType
    BY Constants DEF Init, SealType, Idle, NoText
  <1>3. ProbeType /\ SeenType
    BY Constants DEF Init, ProbeType, NoProbe, SeenType, Unseen
  <1> QED
    BY <1>1, <1>2, <1>3 DEF TypeInv

\* Every step of a sealer, the user and a gate keeps them.
LEMMA TypeStep == TypeInv /\ [Next]_vars => TypeInv'
  <1> SUFFICES ASSUME TypeInv, [Next]_vars PROVE TypeInv'
    OBVIOUS
  <1> USE DEF TypeInv
  <1>1. CASE UNCHANGED vars
    <2>1. HookInv'
      BY <1>1 DEF vars, hookVars, HookInv, HookTypeOK, Due, At
    <2> QED
      BY <1>1, <2>1 DEF vars, preregVars, SealType, ProbeType, SeenType
  <1>2. CASE Next
    <2>1. CASE \E s \in Sealer : SealStep(s) /\ UNCHANGED <<hookVars, probe, edits>>
      <3>1. HookInv' /\ ProbeType'
        BY <2>1 DEF hookVars, HookInv, HookTypeOK, Due, At, ProbeType
      <3> QED
        BY <1>2, <2>1, <3>1, SealStepType, SeenTypeStep, Steps
    <2>2. CASE (Edit \/ Discard) /\ UNCHANGED <<hookVars, probe, sealVars>>
      <3>1. HookInv' /\ ProbeType'
        BY <2>2 DEF hookVars, HookInv, HookTypeOK, Due, At, ProbeType
      <3> QED
        BY <1>2, <2>2, <3>1, UserType, SeenTypeStep, Steps
    <2>3. CASE \E c \in Call : GateStep(c) /\ UNCHANGED <<files, sealVars, edits>>
      <3>1. SealType'
        BY <2>3 DEF files, sealVars, SealType
      <3> QED
        BY <1>2, <2>3, <3>1, GateStepType, SeenTypeStep, Steps
    <2> QED
      BY <1>2, <2>1, <2>2, <2>3, Steps
  <1> QED
    BY <1>1, <1>2

\* For any sealers, calls and bounds: the files, the sealers and the gates keep
\* their types, and every line of the log is of a verdict.
THEOREM TypeCorrect == Spec => []TypeOK
  <1>1. TypeInv => TypeOK
    BY TypeParts DEF TypeInv, HookInv
  <1> QED
    BY <1>1, TypeInit, TypeStep, PTL DEF Spec

-----------------------------------------------------------------------------
(* Seals.                                                                  *)

\* Once a digest has been reported no run of new is past the check; before that,
\* and unless two have been there at once, one is alone with the file it makes.
SealInv ==
  /\ SealKept
  /\ told # {} => \A s \in Sealer : ~Sealing(s)
  /\ ~raced =>
       /\ \A s, t \in Sealer : Sealing(s) /\ Sealing(t) => s = t
       /\ \A s \in Sealer : /\ job[s].at = "open" => json = Absent
                            /\ job[s].at = "write" => json = Broken

\* Nobody has sealed anything at the start.
LEMMA SealInit == Init => SealInv
  BY DEF Init, SealInv, SealKept, Sealing, Idle

\* Every step of a sealer keeps that.
LEMMA SealStepKeeps ==
  ASSUME SealType, SealInv, NEW s \in Sealer, SealStep(s)
  PROVE  SealInv'
  <1> USE DEF SealInv, SealKept, Sealing
  <1>1. ASSUME UNCHANGED <<json, told, raced>>, NEW j, j.at \notin {"open", "write"},
               job' = [job EXCEPT ![s] = j]
        PROVE  SealInv'
    BY <1>1 DEF SealType
  <1>2. CASE NewReads(s) \/ SidecarReads(s) \/ SidecarWrites(s) \/ SealerDies(s)
    BY <1>1, <1>2 DEF NewReads, SidecarReads, SidecarWrites, SealerDies, files, Idle
  <1>3. CASE NewChecks(s)
    <2>1. CASE json = Absent
      <3>1. told = {}
        BY <2>1 DEF Absent
      <3>2. \A t \in Sealer : job'[t] = IF t = s THEN [job[s] EXCEPT !.at = "open"] ELSE job[t]
        BY <1>3, <2>1 DEF NewChecks, SealType
      <3>3. raced' = (raced \/ \E t \in Sealer \ {s} : Sealing(t)) /\ json' = json /\ told' = told
        BY <1>3, <2>1 DEF NewChecks, files
      <3>4. job'[s].at = "open"
        BY <3>2 DEF SealType
      <3>5. ~raced' => ~raced /\ \A t \in Sealer \ {s} : ~Sealing(t)'
        BY <3>2, <3>3
      <3>6. CASE ~raced'
        <4>1. \A t \in Sealer : Sealing(t)' => t = s
          BY <3>5, <3>6
        <4>2. \A t \in Sealer : /\ job'[t].at = "open" => json' = Absent
                                /\ job'[t].at = "write" => json' = Broken
          BY <2>1, <3>3, <3>4, <4>1
        <4> QED
          BY <3>1, <3>3, <4>1, <4>2
      <3>7. CASE raced'
        BY <3>1, <3>3, <3>7
      <3> QED
        BY <3>6, <3>7
    <2>2. CASE json # Absent
      <3>1. job' = [job EXCEPT ![s] = Idle]
        BY <1>3, <2>2 DEF NewChecks
      <3>2. raced' = raced
        BY <1>3, <2>2 DEF NewChecks, SealType
      <3>3. UNCHANGED <<json, told>>
        BY <1>3 DEF NewChecks, files
      <3> QED
        BY <1>1, <3>1, <3>2, <3>3 DEF Idle
    <2> QED
      BY <2>1, <2>2
  <1>4. CASE NewOpens(s)
    <2>1. told = {}
      BY <1>4 DEF NewOpens
    <2> QED
      BY <1>4, <2>1 DEF NewOpens, SealType
  <1>5. CASE NewWrites(s)
    <2>1. told = {}
      BY <1>5 DEF NewWrites
    <2>2. \A t \in Sealer : job'[t] = IF t = s THEN Idle ELSE job[t]
      BY <1>5 DEF NewWrites, SealType
    <2>3. CASE raced
      BY <1>5, <2>1, <2>3 DEF NewWrites
    <2>4. CASE ~raced
      <3>1. \A t \in Sealer : ~Sealing(t)'
        BY <1>5, <2>2, <2>4 DEF NewWrites, Idle
      <3>2. json = Broken
        BY <1>5, <2>4 DEF NewWrites
      <3>3. json' = Whole(job[s].digest, job[s].digest) /\ told' = {job[s].digest}
        BY <1>5, <2>1, <2>4, <3>2 DEF NewWrites, Broken
      <3> QED
        BY <3>1, <3>3 DEF Whole
    <2> QED
      BY <2>3, <2>4
  <1>6. CASE SidecarOpens(s)
    BY <1>6 DEF SidecarOpens, SealType
  <1> QED
    BY <1>2, <1>3, <1>4, <1>5, <1>6 DEF SealStep

\* Every step keeps it: the user removes no seal, and changes no digest.
LEMMA SealKeeps == TypeInv /\ SealInv /\ [Next]_vars => SealInv'
  <1> SUFFICES ASSUME TypeInv, SealInv, [Next]_vars PROVE SealInv'
    OBVIOUS
  <1> USE DEF TypeInv
  <1>1. CASE UNCHANGED <<json, job, told, raced>>
    BY <1>1 DEF SealInv, SealKept, Sealing
  <1>2. CASE Edit /\ UNCHANGED sealVars
    <2>1. json' = json \/ (json.state = "whole" /\ json'.state = "whole" /\ json'.digest = json.digest)
      BY <1>2 DEF Edit, SealType, File
    <2>2. json.state = "whole" => json \notin {Absent, Broken}
      BY DEF Absent, Broken
    <2> QED
      BY <1>2, <2>1, <2>2 DEF sealVars, SealInv, SealKept, Sealing
  <1>3. CASE Discard /\ UNCHANGED sealVars
    <2>1. json' = json \/ json = Broken
      BY <1>3 DEF Discard
    <2>2. \A s \in Sealer : ~Sealing(s)
      BY <1>3 DEF Discard, Sealing, Idle
    <2>3. json = Broken => told = {}
      BY DEF SealInv, SealKept, Broken
    <2> QED
      BY <1>3, <2>1, <2>2, <2>3 DEF sealVars, SealInv, SealKept, Sealing
  <1>4. CASE \E s \in Sealer : SealStep(s)
    BY <1>4, SealStepKeeps
  <1> QED
    BY <1>1, <1>2, <1>3, <1>4, Steps DEF vars, preregVars, files, sealVars

\* For any number of sealers and texts: a digest new has reported stays in
\* prereg.json, unless two runs of new were past the check at once.
THEOREM SealCorrect == Spec => []SealKept
  <1>1. SealInv => SealKept
    BY DEF SealInv
  <1> QED
    BY <1>1, TypeInit, TypeStep, SealInit, SealKeeps, PTL DEF Spec

-----------------------------------------------------------------------------
(* Verdicts.                                                               *)

\* A sidecar, and what is to be one, is of a text the document had, and a file
\* is there while its sidecar is written.
SideInv ==
  /\ side \in {Absent, Broken} \/ (side.state = "whole" /\ side.digest \in 1..doc.text)
  /\ doc.text <= edits /\ (doc.text = NoText => ~doc.frozen)
  /\ \A s \in Sealer : /\ job[s].at \in {"openside", "writeside"} => job[s].digest \in 1..doc.text
                       /\ job[s].at = "writeside" => side # Absent

\* How the document moves: to a text it never had.
DocMoves == doc' = doc \/ (doc.text < doc'.text)

\* How the sidecar moves: it is opened, removed when broken, or written over what is
\* there; only the first can come with a new text.
SideMoves ==
  \/ side' \in {side, Broken}
  \/ side = Broken /\ side' = Absent
  \/ side # Absent /\ side'.state = "whole" /\ doc' = doc

\* There is no sidecar at the start.
LEMMA SideInit == Init => SideInv
  BY DEF Init, SideInv, Idle, NoText

\* Every step keeps the invariant and moves the two files so.
LEMMA SideStep ==
  ASSUME TypeInv, SideInv, [Next]_vars
  PROVE  SideInv' /\ DocMoves /\ SideMoves
  <1> USE DEF TypeInv
  <1>0. doc.text \in Nat /\ edits \in Nat /\ (\A s \in Sealer : job[s].digest \in Nat)
    BY Constants DEF SealType, Text
  <1>1. ASSUME UNCHANGED <<doc, side>>, edits' = edits, NEW s \in Sealer, NEW j,
               job' = [job EXCEPT ![s] = j],
               j.at \notin {"openside", "writeside"} \/ (j.at = "openside" /\ j.digest \in 1..doc.text)
        PROVE  SideInv' /\ DocMoves /\ SideMoves
    BY <1>1 DEF SideInv, DocMoves, SideMoves, SealType
  <1>2. CASE UNCHANGED <<doc, side, edits, job>>
    BY <1>2 DEF SideInv, DocMoves, SideMoves
  <1>3. ASSUME NEW s \in Sealer, SealStep(s), edits' = edits PROVE SideInv' /\ DocMoves /\ SideMoves
    <2>1. CASE NewReads(s)
      BY <1>1, <1>3, <2>1 DEF NewReads, files
    <2>2. CASE NewChecks(s)
      <3>1. job' = [job EXCEPT ![s] = IF json = Absent THEN [job[s] EXCEPT !.at = "open"] ELSE Idle]
        BY <2>2 DEF NewChecks, SealType
      <3>2. (IF json = Absent THEN [job[s] EXCEPT !.at = "open"] ELSE Idle).at \in {"open", "idle"}
        BY DEF SealType, Idle
      <3> QED
        BY <1>1, <1>3, <2>2, <3>1, <3>2 DEF NewChecks, files
    <2>3. CASE NewOpens(s)
      <3>1. job' = [job EXCEPT ![s] = [job[s] EXCEPT !.at = "write"]]
        BY <2>3 DEF NewOpens, SealType
      <3>2. [job[s] EXCEPT !.at = "write"].at = "write"
        BY DEF SealType
      <3> QED
        BY <1>1, <1>3, <2>3, <3>1, <3>2 DEF NewOpens
    <2>4. CASE NewWrites(s) \/ SealerDies(s)
      BY <1>1, <1>3, <2>4 DEF NewWrites, SealerDies, files, Idle
    <2>5. CASE SidecarReads(s)
      <3>1. doc.text \in 1..doc.text
        BY <1>0, <2>5 DEF SidecarReads, NoText
      <3> QED
        BY <1>1, <1>3, <2>5, <3>1 DEF SidecarReads, files
    <2>6. CASE SidecarOpens(s)
      <3>1. \A t \in Sealer : job'[t] = IF t = s THEN [job[s] EXCEPT !.at = "writeside"] ELSE job[t]
        BY <2>6 DEF SidecarOpens, SealType
      <3>2. job'[s].digest = job[s].digest /\ job[s].at = "openside"
        BY <2>6, <3>1 DEF SidecarOpens, SealType
      <3>3. Broken # Absent
        BY DEF Broken, Absent
      <3> QED
        BY <1>3, <2>6, <3>1, <3>2, <3>3 DEF SidecarOpens, SideInv, DocMoves, SideMoves
    <2>7. CASE SidecarWrites(s)
      <3>1. \A t \in Sealer : job'[t] = IF t = s THEN Idle ELSE job[t]
        BY <2>7 DEF SidecarWrites, SealType
      <3>2. side'.state = "whole" /\ side'.digest = job[s].digest
        BY <2>7 DEF SidecarWrites, Whole
      <3>3. side # Absent /\ side' # Absent /\ job[s].digest \in 1..doc.text /\ Idle.at = "idle"
        BY <2>7, <3>2 DEF SidecarWrites, SideInv, Absent, Idle
      <3> QED
        BY <1>3, <2>7, <3>1, <3>2, <3>3 DEF SidecarWrites, SideInv, DocMoves, SideMoves
    <2> QED
      BY <1>3, <2>1, <2>2, <2>3, <2>4, <2>5, <2>6, <2>7 DEF SealStep
  <1>4. CASE Edit /\ UNCHANGED sealVars
    <2>1. edits' = edits + 1 /\ side' = side /\ job' = job
      BY <1>4 DEF Edit, sealVars
    <2>2. doc' = doc \/ doc'.text = edits + 1
      BY <1>4 DEF Edit
    <2> QED
      BY <1>0, <2>1, <2>2 DEF SideInv, DocMoves, SideMoves, NoText
  <1>5. CASE Discard /\ UNCHANGED sealVars
    <2>1. side' = side \/ (side = Broken /\ side' = Absent)
      BY <1>5 DEF Discard
    <2>2. UNCHANGED <<doc, edits, job>> /\ \A s \in Sealer : job[s] = Idle
      BY <1>5 DEF Discard, sealVars
    <2> QED
      BY <2>1, <2>2 DEF SideInv, DocMoves, SideMoves, Idle
  <1> QED
    BY <1>2, <1>3, <1>4, <1>5, Steps DEF vars, preregVars, files, sealVars

\* While a call is judged, the files still left are those it can yet find sealed;
\* what it holds of the sidecar is what is there, if the document was never in
\* doubt, and what the document then was, if it comes to match.
JudgedInv(c) ==
  At(c, "judge") =>
    /\ seen[c].always \subseteq probe[c].left \cap Undisputed
    /\ Sealed \subseteq seen[c].ever
    /\ probe[c].want = "marker" /\ "md" \in seen[c].always => side = Absent
    /\ probe[c].want = "digest" /\ "md" \in seen[c].always =>
         side.state = "whole" /\ side.digest = probe[c].digest
    /\ probe[c].want = "digest" =>
         /\ probe[c].digest <= doc.text
         /\ probe[c].digest = doc.text => "md" \in seen[c].ever

EarnedFor(c) ==
  /\ call[c].verdict = "blocked" /\ At(c, "say") => seen[c].always = {}
  /\ probe[c].found \subseteq seen[c].ever

VerdictInv == \A c \in Call : JudgedInv(c) /\ EarnedFor(c)

\* What a call is said to have seen, by where it is before and after the step.
LEMMA SeenCases ==
  ASSUME Watched, NEW c \in Call
  PROVE  /\ call'[c].at # "judge" /\ (At(c, "judge") \/ call'[c] = call[c]) => seen'[c] = seen[c]
         /\ call'[c].at # "judge" /\ ~At(c, "judge") /\ call'[c] # call[c] => seen'[c] = Unseen
         /\ call'[c].at = "judge" /\ At(c, "judge") =>
              /\ seen'[c].always = seen[c].always \cap Undisputed'
              /\ seen'[c].ever = seen[c].ever \cup Sealed'
         /\ call'[c].at = "judge" /\ ~At(c, "judge") =>
              /\ seen'[c].always = Undisputed' \cap probe'[c].left
              /\ seen'[c].ever = Sealed'
  <1>1. CASE call'[c].at # "judge"
    <2>1. CASE At(c, "judge") \/ call'[c] = call[c]
      <3>1. seen'[c] = seen[c]
        BY <1>1, <2>1 DEF Watched, At
      <3> QED
        BY <1>1, <2>1, <3>1 DEF At
    <2>2. CASE ~(At(c, "judge") \/ call'[c] = call[c])
      <3>1. seen'[c] = Unseen
        BY <1>1, <2>2 DEF Watched, At
      <3> QED
        BY <1>1, <2>2, <3>1 DEF At
    <2> QED
      BY <2>1, <2>2
  <1>2. CASE call'[c].at = "judge" /\ At(c, "judge")
    <2>1. seen'[c] = [always |-> seen[c].always \cap Undisputed', ever |-> seen[c].ever \cup Sealed']
      BY <1>2 DEF Watched
    <2> QED
      BY <1>2, <2>1 DEF At
  <1>3. CASE call'[c].at = "judge" /\ ~At(c, "judge")
    <2>1. seen'[c] = [always |-> Undisputed' \cap probe'[c].left, ever |-> Sealed']
      BY <1>3 DEF Watched
    <2> QED
      BY <1>3, <2>1 DEF At
  <1> QED
    BY <1>1, <1>2, <1>3

\* A document nothing contradicts is marked frozen where it has no sidecar, and
\* has the text of its sidecar where it has one.
LEMMA UndisputedDoc ==
  ASSUME "md" \in Undisputed
  PROVE  /\ side = Absent /\ doc.frozen
         \/ Matches
  BY DEF Undisputed, Sealed, Matches, Absent

\* A call that does not move keeps its invariant, whatever the sealers, the user
\* and the other calls do.
LEMMA StandsStill ==
  ASSUME TypeInv, SideInv, SideInv', VerdictInv, DocMoves, SideMoves, Watched,
         SealType', NEW c \in Call, call'[c] = call[c], probe'[c] = probe[c]
  PROVE  JudgedInv(c)' /\ EarnedFor(c)'
  <1> USE DEF TypeInv
  <1>1. CASE ~At(c, "judge")
    BY <1>1, SeenCases DEF At, VerdictInv, JudgedInv, EarnedFor
  <1>2. CASE At(c, "judge")
    <2>1. JudgedInv(c) /\ EarnedFor(c)
      BY DEF VerdictInv
    <2>2. seen'[c].always = seen[c].always \cap Undisputed' /\ seen'[c].ever = seen[c].ever \cup Sealed'
      BY <1>2, SeenCases DEF At
    <2>3. EarnedFor(c)'
      BY <1>2, <2>1, <2>2 DEF EarnedFor, At
    <2>4. "md" \in seen'[c].always => "md" \in Undisputed /\ "md" \in Undisputed' /\ "md" \in seen[c].always
      BY <1>2, <2>1, <2>2 DEF JudgedInv
    <2>5. ASSUME probe[c].want = "marker", "md" \in seen'[c].always PROVE side' = Absent
      <3>1. side = Absent
        BY <1>2, <2>1, <2>4, <2>5 DEF JudgedInv
      <3>2. side' # Broken
        BY <2>4, <2>5, UndisputedDoc DEF Undisputed, Matches, Broken, Absent
      <3> QED
        BY <3>1, <3>2 DEF SideMoves
    <2>6. ASSUME probe[c].want = "digest", "md" \in seen'[c].always
          PROVE  side'.state = "whole" /\ side'.digest = probe[c].digest
      <3>1. side.state = "whole" /\ side.digest = probe[c].digest
        BY <1>2, <2>1, <2>4, <2>6 DEF JudgedInv
      <3>2. side # Absent /\ side # Broken
        BY <3>1 DEF Absent, Broken
      <3>3. doc.text = side.digest
        BY <2>4, <2>6, <3>2, UndisputedDoc DEF Matches
      <3>4. side' # Broken
        BY <2>4, <2>6 DEF Undisputed, Matches, Broken, Absent
      <3>5. CASE side' = side
        BY <3>1, <3>5
      <3>6. CASE side' # side
        <4>1. side'.state = "whole"
          BY <3>2, <3>4, <3>6 DEF SideMoves
        <4>2. side'.digest = doc'.text
          BY <2>4, <2>6, <4>1 DEF Undisputed, Matches, Absent
        <4>3. doc' = doc
          BY <3>2, <3>4, <3>6 DEF SideMoves
        <4> QED
          BY <3>1, <3>3, <4>1, <4>2, <4>3
      <3> QED
        BY <3>5, <3>6
    <2>7. ASSUME probe[c].want = "digest"
          PROVE  /\ probe[c].digest <= doc'.text
                 /\ probe[c].digest = doc'.text => "md" \in seen'[c].ever
      <3>1. probe[c].digest <= doc.text /\ (probe[c].digest = doc.text => "md" \in seen[c].ever)
        BY <1>2, <2>1, <2>7 DEF JudgedInv
      <3>2. probe[c].digest \in Nat /\ doc.text \in Nat /\ doc'.text \in Nat
        BY Constants DEF ProbeType, SealType, Text
      <3> QED
        BY <2>2, <3>1, <3>2 DEF DocMoves
    <2>8. seen'[c].always \subseteq probe'[c].left \cap Undisputed' /\ Sealed' \subseteq seen'[c].ever
      <3>1. seen[c].always \subseteq probe[c].left
        BY <1>2, <2>1 DEF JudgedInv
      <3> QED
        BY <2>2, <3>1
    <2>9. probe'[c].want = probe[c].want /\ probe'[c].digest = probe[c].digest
      OBVIOUS
    <2>10. JudgedInv(c)'
      BY <2>5, <2>6, <2>7, <2>8, <2>9 DEF JudgedInv
    <2> QED
      BY <2>3, <2>10
  <1> QED
    BY <1>1, <1>2

\* A gate moves no call but its own.
LEMMA OthersStand ==
  ASSUME TypeInv, NEW c \in Call, GateStep(c), NEW d \in Call, d # c
  PROVE  call'[d] = call[d] /\ probe'[d] = probe[d]
  <1> USE DEF TypeInv
  <1>1. call'[d] = call[d]
    <2>1. CASE \E v \in Verdict \cup {"mute"} : Give(c, v)
      BY <2>1 DEF Give, HookInv, HookTypeOK
    <2>2. CASE UNCHANGED hookVars \/ \E named \in SUBSET Candidate : Experiment(c, named)
      BY <2>2 DEF Experiment, hookVars, HookInv, HookTypeOK
    <2>3. CASE HookStep(c)
      BY <2>3 DEF HookStep, Say, SayFails, Give, Record, RecordFails, Exit, KillGate, HookInv, HookTypeOK
    <2> QED
      BY <2>1, <2>2, <2>3 DEF GateStep, JudgesJson, JsonRaises, JudgesSidecar, JudgesDocument,
         NoneSealed, NotJudged, GovernanceJudges, RungJudges, Found, Rejected, Verdict
  <1>2. probe'[d] = probe[d]
    BY DEF GateStep, Experiment, JudgesJson, JsonRaises, JudgesSidecar, JudgesDocument,
       NoneSealed, Found, Rejected, ProbeType
  <1> QED
    BY <1>1, <1>2

\* A call that comes to a verdict is judged no more, and where it goes.
LEMMA Gives ==
  ASSUME TypeInv, NEW c \in Call, NEW v \in Verdict \cup {"mute"}, Give(c, v)
  PROVE  call'[c].verdict = v /\ call'[c].at = FirstStep(v) /\ call'[c].at # "judge"
  BY DEF TypeInv, HookInv, HookTypeOK, Give, FirstStep

\* A call that leaves the judging keeps what it saw, one that was elsewhere forgets it.
LEMMA Leaves ==
  ASSUME TypeInv, VerdictInv, Watched, NEW c \in Call, call'[c].at # "judge",
         \/ At(c, "judge") /\ (call'[c].verdict = "blocked" => call'[c].at # "say" \/ seen[c].always = {})
         \/ ~At(c, "judge"),
         \/ probe'[c].found = {}
         \/ At(c, "judge") /\ probe'[c].found \subseteq seen[c].ever
  PROVE  JudgedInv(c)' /\ EarnedFor(c)'
  <1>1. EarnedFor(c)
    BY DEF VerdictInv
  <1>2. CASE At(c, "judge")
    <2>1. seen'[c] = seen[c]
      BY <1>2, SeenCases
    <2> QED
      BY <1>2, <2>1 DEF JudgedInv, EarnedFor, At
  <1>3. CASE ~At(c, "judge")
    <2>1. seen'[c] = Unseen \/ (call'[c] = call[c] /\ seen'[c] = seen[c])
      BY <1>3, SeenCases
    <2> QED
      BY <1>1, <1>3, <2>1 DEF JudgedInv, EarnedFor, At, Unseen
  <1> QED
    BY <1>2, <1>3

\* A file that is rejected was not sealed beyond dispute all the time.
LEMMA RejectedKeeps ==
  ASSUME TypeInv, VerdictInv, Watched, UNCHANGED files, NEW c \in Call, NEW x \in Candidate,
         At(c, "judge"), Rejected(c, x), x \notin seen[c].always \cap Undisputed
  PROVE  JudgedInv(c)' /\ EarnedFor(c)'
  <1>1. JudgedInv(c) /\ EarnedFor(c)
    BY DEF VerdictInv
  <1>2. Sealed' = Sealed /\ Undisputed' = Undisputed
    BY DEF files, Sealed, Undisputed, Machine, Matches
  <1>3. call' = call /\ probe'[c].left = probe[c].left \ {x} /\ probe'[c].want = "none"
        /\ probe'[c].found = probe[c].found
    BY DEF Rejected, hookVars, TypeInv, ProbeType
  <1>4. seen'[c].always = seen[c].always \cap Undisputed /\ seen'[c].ever = seen[c].ever \cup Sealed
    BY <1>2, <1>3, SeenCases DEF At
  <1>5. seen'[c].always \subseteq probe'[c].left \cap Undisputed' /\ Sealed' \subseteq seen'[c].ever
    BY <1>1, <1>2, <1>3, <1>4 DEF JudgedInv
  <1>6. JudgedInv(c)'
    BY <1>3, <1>5 DEF JudgedInv
  <1>7. EarnedFor(c)'
    BY <1>1, <1>3, <1>4 DEF EarnedFor, At
  <1> QED
    BY <1>6, <1>7

\* Every step of a gate keeps the invariant of its call.
LEMMA GateKeeps ==
  ASSUME TypeInv, SideInv, VerdictInv, Watched, UNCHANGED files, NEW c \in Call, GateStep(c)
  PROVE  JudgedInv(c)' /\ EarnedFor(c)'
  <1> USE DEF TypeInv
  <1>1. JudgedInv(c) /\ EarnedFor(c)
    BY DEF VerdictInv
  <1>2. Sealed' = Sealed /\ Undisputed' = Undisputed
    BY DEF files, Sealed, Undisputed, Machine, Matches
  <1>3. ASSUME NEW x \in Candidate, At(c, "judge"), Found(c, x), x \in seen[c].ever
        PROVE  JudgedInv(c)' /\ EarnedFor(c)'
    <2>1. call'[c].verdict = "allowed" /\ call'[c].at # "judge"
      BY <1>3, Gives DEF Found, Verdict
    <2>2. probe'[c].found = {x}
      BY <1>3 DEF Found, ProbeType, NoProbe
    <2> QED
      BY <1>3, <2>1, <2>2, Leaves
  <1>4. ASSUME NEW named \in SUBSET Candidate, Experiment(c, named)
        PROVE  JudgedInv(c)' /\ EarnedFor(c)'
    <2>1. call'[c].at = "judge" /\ ~At(c, "judge")
      BY <1>4 DEF Experiment, At, HookInv, HookTypeOK
    <2>2. probe'[c].want = "none" /\ probe'[c].found = {}
      BY <1>4 DEF Experiment, ProbeType, NoProbe
    <2>3. seen'[c].always = Undisputed' \cap probe'[c].left /\ seen'[c].ever = Sealed'
      BY <2>1, SeenCases
    <2> QED
      BY <2>1, <2>2, <2>3 DEF JudgedInv, EarnedFor, At
  <1>5. CASE JudgesJson(c)
    <2>1. At(c, "judge") /\ "json" \in Candidate
      BY <1>5 DEF JudgesJson, Next_, Candidate
    <2>2. CASE Machine(json)
      <3>1. "json" \in seen[c].ever
        BY <1>1, <2>1, <2>2 DEF JudgedInv, Sealed, Candidate
      <3> QED
        BY <1>3, <1>5, <2>1, <2>2, <3>1 DEF JudgesJson
    <2>3. CASE ~Machine(json)
      <3>1. "json" \notin Undisputed
        BY <2>3 DEF Undisputed, Sealed
      <3> QED
        BY <1>5, <2>1, <2>3, <3>1, RejectedKeeps DEF JudgesJson
    <2> QED
      BY <2>2, <2>3
  <1>6. CASE JsonRaises(c)
    <2>1. At(c, "judge") /\ probe' = probe
      BY <1>6 DEF JsonRaises, Next_
    <2>2. call'[c].verdict = "error" /\ call'[c].at # "judge"
      BY <1>6, Gives DEF JsonRaises, Verdict
    <2> QED
      BY <1>1, <2>1, <2>2, Leaves DEF EarnedFor
  <1>7. CASE NoneSealed(c)
    <2>1. At(c, "judge") /\ probe' = probe /\ probe[c].left = {}
      BY <1>7 DEF NoneSealed
    <2>2. call'[c].at # "judge"
      BY <1>7, Gives DEF NoneSealed, Verdict
    <2>3. seen[c].always = {}
      BY <1>1, <2>1 DEF JudgedInv
    <2> QED
      BY <1>1, <2>1, <2>2, <2>3, Leaves DEF EarnedFor
  <1>8. CASE JudgesSidecar(c)
    <2>1. At(c, "judge") /\ "md" \in Candidate
      BY <1>8 DEF JudgesSidecar, Next_, Candidate
    <2>2. CASE doc.text = NoText \/ side = Broken
      <3>1. "md" \notin Undisputed
        BY <2>2, UndisputedDoc DEF SideInv, Matches, Broken, Absent, NoText
      <3> QED
        BY <1>8, <2>1, <2>2, <3>1, RejectedKeeps DEF JudgesSidecar
    <2>3. CASE ~(doc.text = NoText \/ side = Broken)
      <3>1. call' = call /\ probe'[c].digest = side.digest
            /\ probe'[c].want = (IF side = Absent THEN "marker" ELSE "digest")
            /\ probe'[c].left = probe[c].left /\ probe'[c].found = probe[c].found
        BY <1>8, <2>3 DEF JudgesSidecar, hookVars, ProbeType
      <3>2. seen'[c].always = seen[c].always \cap Undisputed /\ seen'[c].ever = seen[c].ever \cup Sealed
        BY <1>2, <2>1, <3>1, SeenCases DEF At
      <3>3. seen'[c].always \subseteq probe'[c].left \cap Undisputed' /\ Sealed' \subseteq seen'[c].ever
        BY <1>1, <1>2, <2>1, <3>1, <3>2 DEF JudgedInv
      <3>4. EarnedFor(c)'
        BY <1>1, <3>1, <3>2 DEF EarnedFor, At
      <3>5. side' = side /\ doc' = doc
        BY DEF files
      <3>6. CASE side = Absent
        <4>1. probe'[c].want = "marker" /\ side' = Absent
          BY <3>1, <3>5, <3>6
        <4>2. JudgedInv(c)'
          BY <3>3, <4>1 DEF JudgedInv
        <4> QED
          BY <3>4, <4>2
      <3>7. CASE side # Absent
        <4>1. probe'[c].want = "digest" /\ side'.state = "whole" /\ side'.digest = probe'[c].digest
          BY <2>3, <3>1, <3>5, <3>7 DEF SideInv
        <4>2. probe'[c].digest <= doc'.text
          BY <2>3, <3>1, <3>5, <3>7, Constants DEF SideInv, SealType, Text
        <4>3. probe'[c].digest = doc'.text => "md" \in seen'[c].ever
          BY <3>2, <3>5, <4>1 DEF Sealed, Matches, Candidate
        <4>4. JudgedInv(c)'
          BY <3>3, <4>1, <4>2, <4>3 DEF JudgedInv
        <4> QED
          BY <3>4, <4>4
      <3> QED
        BY <3>6, <3>7
    <2> QED
      BY <2>2, <2>3
  <1>9. CASE JudgesDocument(c)
    <2>1. At(c, "judge") /\ "md" \in Candidate /\ probe[c].want \in {"marker", "digest"}
      BY <1>9 DEF JudgesDocument, Next_, Candidate, ProbeType
    <2>2. CASE probe[c].want = "marker" /\ doc.frozen
      <3>1. "md" \in seen[c].ever
        BY <1>1, <2>1, <2>2 DEF JudgedInv, Sealed
      <3> QED
        BY <1>3, <1>9, <2>1, <2>2, <3>1 DEF JudgesDocument
    <2>3. CASE probe[c].want = "digest" /\ doc.text = probe[c].digest
      <3>1. "md" \in seen[c].ever
        BY <1>1, <2>1, <2>3 DEF JudgedInv
      <3> QED
        BY <1>3, <1>9, <2>1, <2>3, <3>1 DEF JudgesDocument
    <2>4. CASE /\ ~(probe[c].want = "marker" /\ doc.frozen)
               /\ ~(probe[c].want = "digest" /\ doc.text = probe[c].digest)
      <3>1. "md" \notin seen[c].always \cap Undisputed
        BY <1>1, <2>1, <2>4, UndisputedDoc DEF JudgedInv, Matches, Absent
      <3> QED
        BY <1>9, <2>1, <2>4, <3>1, RejectedKeeps DEF JudgesDocument
    <2> QED
      BY <2>2, <2>3, <2>4
  <1>10. CASE /\ NotJudged(c) \/ GovernanceJudges(c) \/ RungJudges(c) \/ HookStep(c)
              /\ probe' = [probe EXCEPT ![c] = NoProbe]
    <2>1. probe'[c].found = {}
      BY <1>10 DEF ProbeType, NoProbe
    <2>2. CASE At(c, "judge")
      <3>1. KillGate(c)
        BY <1>10, <2>2 DEF NotJudged, GovernanceJudges, RungJudges, HookStep, Say, SayFails,
           Record, RecordFails, Exit, At
      <3>2. call'[c].at = "done"
        BY <3>1 DEF KillGate, HookInv, HookTypeOK
      <3> QED
        BY <2>1, <2>2, <3>2, Leaves
    <2>3. CASE ~At(c, "judge")
      <3>1. CASE \E v \in Verdict \cup {"mute"} : Give(c, v)
        BY <2>1, <2>3, <3>1, Gives, Leaves
      <3>2. CASE HookStep(c)
        <4>1. call'[c].at # "judge"
          <5>1. CASE SayFails(c)
            BY <5>1, Gives DEF SayFails, Verdict
          <5>2. CASE Say(c) \/ Record(c) \/ RecordFails(c)
            BY <5>2, ZenonT(30) DEF Say, Record, RecordFails, HookInv, HookTypeOK
          <5>3. CASE Exit(c) \/ KillGate(c)
            BY <5>3 DEF Exit, KillGate, HookInv, HookTypeOK
          <5> QED
            BY <3>2, <5>1, <5>2, <5>3 DEF HookStep
        <4> QED
          BY <2>1, <2>3, <4>1, Leaves
      <3> QED
        BY <1>10, <3>1, <3>2 DEF NotJudged, GovernanceJudges, RungJudges, Verdict
    <2> QED
      BY <2>2, <2>3
  <1> QED
    BY <1>4, <1>5, <1>6, <1>7, <1>8, <1>9, <1>10 DEF GateStep

\* No call has been judged at the start.
LEMMA VerdictInit == Init => VerdictInv
  BY DEF Init, HookInit, VerdictInv, JudgedInv, EarnedFor, At, NoProbe, Unseen

\* Every step keeps the invariant of every call.
LEMMA VerdictStep ==
  ASSUME TypeInv, TypeInv', SideInv, VerdictInv, [Next]_vars
  PROVE  VerdictInv'
  <1>1. SideInv' /\ DocMoves /\ SideMoves
    BY SideStep
  <1>2. CASE UNCHANGED vars
    BY <1>2 DEF vars, hookVars, preregVars, VerdictInv, JudgedInv, EarnedFor, At, Sealed,
       Undisputed, Machine, Matches
  <1>3. CASE Next
    <2>1. Watched
      BY <1>3, Steps
    <2>2. ASSUME NEW c \in Call PROVE JudgedInv(c)' /\ EarnedFor(c)'
      <3>1. CASE UNCHANGED <<hookVars, probe>>
        BY <1>1, <2>1, <3>1, StandsStill DEF TypeInv, hookVars
      <3>2. ASSUME NEW d \in Call, GateStep(d), UNCHANGED files
            PROVE  JudgedInv(c)' /\ EarnedFor(c)'
        <4>1. CASE d = c
          BY <2>1, <3>2, <4>1, GateKeeps
        <4>2. CASE d # c
          BY <1>1, <2>1, <3>2, <4>2, OthersStand, StandsStill DEF TypeInv
        <4> QED
          BY <4>1, <4>2
      <3> QED
        BY <1>3, <3>1, <3>2, Steps
    <2> QED
      BY <2>2 DEF VerdictInv
  <1> QED
    BY <1>2, <1>3

\* For any sealers, calls and texts: while files change under it, the gate blocks
\* only a call that names no file sealed all the time it was judged, and lets one
\* pass only for a file that was sealed at some time of it.
THEOREM VerdictCorrect == Spec => []VerdictEarned
  <1>1. VerdictInv => VerdictEarned
    BY DEF VerdictInv, EarnedFor, VerdictEarned
  <1>2. TypeInv /\ SideInv /\ [Next]_vars => SideInv'
    BY SideStep
  <1>3. TypeInv /\ TypeInv' /\ SideInv /\ VerdictInv /\ [Next]_vars => VerdictInv'
    BY VerdictStep
  <1> QED
    BY <1>1, <1>2, <1>3, TypeInit, TypeStep, SideInit, VerdictInit, PTL DEF Spec

-----------------------------------------------------------------------------
(* The trail of the gates, gates/_hook.py, whatever the gates judge by.    *)

\* The calls whose line is lost, or was never written.
Lost == {c \in Call : /\ At(c, "exit") \/ Ended(c)
                      /\ call[c].verdict # "mute"
                      /\ Lines(c) = {}}

\* What the lines of a call tell: nothing before its line is written, its verdict
\* while it waits to exit, its outcome from then on; and there is one at most.
Tells(c) ==
  /\ call[c].at \notin {"exit", "done"} => Lines(c) = {}
  /\ At(c, "exit") => Lines(c) \subseteq {call[c].verdict}
  /\ \A v, w \in Lines(c) : v = w
  /\ Ended(c) /\ Lines(c) # {} => (Lines(c) = {"blocked"} <=> Refused(c))

\* A line cut by a full disk costs the trail the next one.
Owed == IF ragged THEN 1 ELSE 0

AuditInv ==
  /\ \A c \in Call : Tells(c)
  /\ IsFiniteSet(Lost)
  /\ Cardinality(Lost) + Owed <= 2 * full

\* The lines due of the calls that ended are among those.
LEMMA AuditEnough == TypeInv /\ AuditInv => AuditTrue
  <1> SUFFICES ASSUME TypeInv, AuditInv PROVE AuditTrue
    OBVIOUS
  <1> DEFINE Missing == {c \in Call : Ended(c) /\ call[c].verdict # "mute" /\ Lines(c) = {}}
  <1>1. Missing \in SUBSET Lost
    BY DEF Lost
  <1>2. Cardinality(Missing) <= Cardinality(Lost) /\ IsFiniteSet(Missing)
    BY <1>1, FS_Subset DEF AuditInv
  <1>3. Cardinality(Missing) \in Nat /\ Cardinality(Lost) \in Nat /\ full \in Nat /\ Owed \in {0, 1}
    BY <1>2, FS_CardinalityType, BoundAssumption DEF AuditInv, TypeInv, HookInv, HookTypeOK, Owed
  <1>4. Cardinality(Missing) <= 2 * full
    BY <1>2, <1>3 DEF AuditInv
  <1>5. \A c \in Call : Ended(c) /\ Lines(c) # {} => (Lines(c) = {"blocked"} <=> Refused(c))
    BY DEF AuditInv, Tells
  <1>6. \A c \in Call : \A v, w \in Lines(c) : v = w
    BY DEF AuditInv, Tells
  <1> QED
    BY <1>4, <1>5, <1>6 DEF AuditTrue

\* There are no calls and no lines at the start.
LEMMA AuditInit == Init => AuditInv
  <1> SUFFICES ASSUME Init PROVE AuditInv
    OBVIOUS
  <1>1. /\ \A c \in Call : call[c].at = "idle" /\ Lines(c) = {}
        /\ ragged = FALSE /\ full = 0
    BY DEF Init, HookInit, Lines
  <1>2. Lost = {}
    BY <1>1 DEF Lost, At, Ended
  <1>3. \A c \in Call : Tells(c)
    BY <1>1 DEF Tells, At, Ended
  <1> QED
    BY <1>1, <1>2, <1>3, FS_EmptySet DEF AuditInv, Owed

\* A call that moves and loses no line adds nothing to what is lost.
LEMMA NothingLost ==
  ASSUME TypeInv, AuditInv, NEW c \in Call, Tells(c)',
         c \in Lost' => c \in Lost,
         \A d \in Call \ {c} : call'[d] = call[d] /\ Lines(d)' = Lines(d),
         full' = full, ragged' \in BOOLEAN, ragged' => ragged
  PROVE  AuditInv'
  <1>1. \A d \in Call : Tells(d)'
    BY DEF AuditInv, Tells, At, Ended, Refused
  <1>2. Lost' \in SUBSET Lost
    BY DEF Lost, At, Ended
  <1>3. IsFiniteSet(Lost') /\ Cardinality(Lost') <= Cardinality(Lost)
    BY <1>2, FS_Subset DEF AuditInv
  <1>4. Cardinality(Lost') \in Nat /\ Cardinality(Lost) \in Nat /\ full \in Nat
    BY <1>3, FS_CardinalityType, BoundAssumption DEF AuditInv, TypeInv, HookInv, HookTypeOK
  <1>5. Owed \in {0, 1} /\ Owed' \in {0, 1} /\ Owed' <= Owed
    BY DEF Owed
  <1> QED
    BY <1>1, <1>3, <1>4, <1>5 DEF AuditInv

\* A call whose line is lost adds one, which what was owed or the full disk pays.
LEMMA OneLost ==
  ASSUME TypeInv, AuditInv, NEW c \in Call, Tells(c)',
         \A d \in Call \ {c} : call'[d] = call[d] /\ Lines(d)' = Lines(d),
         \/ full' = full /\ ragged = TRUE /\ ragged' = FALSE
         \/ full' = full + 1 /\ ragged' \in BOOLEAN
  PROVE  AuditInv'
  <1>1. \A d \in Call : Tells(d)'
    BY DEF AuditInv, Tells, At, Ended, Refused
  <1>2. Lost' \in SUBSET (Lost \cup {c})
    BY DEF Lost, At, Ended
  <1>3. IsFiniteSet(Lost \cup {c}) /\ Cardinality(Lost \cup {c}) <= Cardinality(Lost) + 1
    <2>1. IsFiniteSet(Lost)
      BY DEF AuditInv
    <2>2. Cardinality(Lost) \in Nat
      BY <2>1, FS_CardinalityType
    <2> QED
      BY <2>1, <2>2, FS_AddElement
  <1>4. IsFiniteSet(Lost') /\ Cardinality(Lost') <= Cardinality(Lost \cup {c})
    BY <1>2, <1>3, FS_Subset
  <1>5. Cardinality(Lost') \in Nat /\ Cardinality(Lost) \in Nat /\ Cardinality(Lost \cup {c}) \in Nat
        /\ full \in Nat
    BY <1>3, <1>4, FS_CardinalityType, BoundAssumption DEF AuditInv, TypeInv, HookInv, HookTypeOK
  <1>6. CASE full' = full /\ ragged = TRUE /\ ragged' = FALSE
    <2>1. Owed = 1 /\ Owed' = 0
      BY <1>6 DEF Owed
    <2> QED
      BY <1>1, <1>3, <1>4, <1>5, <1>6, <2>1 DEF AuditInv
  <1>7. CASE full' = full + 1 /\ ragged' \in BOOLEAN
    <2>1. Owed \in {0, 1} /\ Owed' \in {0, 1}
      BY DEF Owed
    <2> QED
      BY <1>1, <1>3, <1>4, <1>5, <1>7, <2>1 DEF AuditInv
  <1> QED
    BY <1>6, <1>7

\* A call without a line that comes to a verdict.
LEMMA GiveTells ==
  ASSUME TypeInv, AuditInv, NEW c \in Call, NEW v \in Verdict \cup {"mute"},
         Give(c, v), call[c].at \notin {"exit", "done"}
  PROVE  AuditInv'
  <1>1. Lines(c) = {} /\ \A d \in Call : Lines(d)' = Lines(d)
    BY DEF AuditInv, Tells, Give, Lines
  <1>2. \A d \in Call \ {c} : call'[d] = call[d]
    BY DEF Give, TypeInv, HookInv, HookTypeOK
  <1>3. call'[c].verdict = v /\ call'[c].at = FirstStep(v)
    BY DEF Give, TypeInv, HookInv, HookTypeOK
  <1>4. call'[c].at \in {"say", "record"} \/ (call'[c].at = "exit" /\ call'[c].verdict = "mute")
    BY <1>3 DEF FirstStep
  <1>5. Tells(c)' /\ c \notin Lost'
    BY <1>1, <1>4 DEF Tells, Lost, At, Ended
  <1>6. full' = full /\ ragged' = ragged /\ ragged \in BOOLEAN
    BY DEF Give, TypeInv, HookInv, HookTypeOK
  <1> QED
    BY <1>1, <1>2, <1>5, <1>6, NothingLost

\* The steps of a gate, as the trail sees them.
LEMMA HookMoves ==
  ASSUME NEW c \in Call, GateStep(c)
  PROVE  \/ \E v \in Verdict \cup {"mute"} : Give(c, v) /\ call[c].at \in {"idle", "judge"}
         \/ \E named \in SUBSET Candidate : Experiment(c, named)
         \/ UNCHANGED hookVars
         \/ HookStep(c)
  BY DEF GateStep, JudgesJson, JsonRaises, JudgesSidecar, JudgesDocument, NoneSealed, NotJudged,
     GovernanceJudges, RungJudges, Found, Rejected, Next_, At, Verdict

\* Every step of a gate keeps the trail.
LEMMA HookKeeps ==
  ASSUME TypeInv, AuditInv, NEW c \in Call, HookStep(c)
  PROVE  AuditInv'
  <1> USE DEF TypeInv, HookInv
  <1>0. Tells(c) /\ call[c].verdict \in Verdict \cup {"none", "mute"} /\ ragged \in BOOLEAN
        /\ Lines(c) \subseteq Verdict
    BY DEF AuditInv, HookTypeOK, Lines
  <1>1. CASE Say(c)
    <2>1. /\ \A d \in Call \ {c} : call'[d] = call[d]
          /\ \A d \in Call : Lines(d)' = Lines(d)
          /\ call'[c].at = "record" /\ call[c].at = "say" /\ full' = full /\ ragged' = ragged
      BY <1>1 DEF Say, HookTypeOK, At, Lines
    <2>2. Tells(c)' /\ c \notin Lost'
      BY <1>0, <2>1 DEF Tells, Lost, At, Ended
    <2> QED
      BY <1>0, <2>1, <2>2, NothingLost
  <1>2. CASE SayFails(c)
    BY <1>2, GiveTells DEF SayFails, At, Verdict
  <1>3. CASE Record(c)
    <2>1. /\ \A d \in Call \ {c} : call'[d] = call[d]
          /\ call'[c].at = "exit" /\ call'[c].verdict = call[c].verdict /\ call[c].at = "record"
          /\ full' = full /\ ragged' = FALSE /\ Lines(c) = {}
      BY <1>0, <1>3 DEF Record, HookTypeOK, At, Tells
    <2>2. CASE ragged
      <3>1. \A d \in Call : Lines(d)' = Lines(d)
        BY <1>3, <2>2 DEF Record, Lines
      <3>2. Tells(c)'
        BY <2>1, <3>1 DEF Tells, At, Ended
      <3> QED
        BY <1>0, <2>1, <2>2, <3>1, <3>2, OneLost
    <2>3. CASE ~ragged
      <3>1. log' = log \cup {<<c, call[c].verdict>>}
        BY <1>3, <2>3 DEF Record
      <3>2. \A d \in Call \ {c} : Lines(d)' = Lines(d)
        BY <3>1 DEF Lines
      <3>3. call[c].verdict \in Verdict
        BY <2>1 DEF Due, At
      <3>4. Lines(c)' = {call[c].verdict}
        BY <2>1, <3>1, <3>3 DEF Lines
      <3>5. Tells(c)' /\ c \notin Lost'
        BY <2>1, <3>4 DEF Tells, Lost, At, Ended
      <3> QED
        BY <2>1, <2>3, <3>2, <3>5, NothingLost
    <2> QED
      BY <2>2, <2>3
  <1>4. CASE RecordFails(c)
    <2>1. /\ \A d \in Call \ {c} : call'[d] = call[d]
          /\ \A d \in Call : Lines(d)' = Lines(d)
          /\ call'[c].at = "exit" /\ call[c].at = "record" /\ full' = full + 1
      BY <1>4 DEF RecordFails, HookTypeOK, At, Lines
    <2>2. ragged' \in BOOLEAN
      BY <1>0, <1>4 DEF RecordFails
    <2>3. Tells(c)'
      BY <1>0, <2>1 DEF Tells, At, Ended
    <2> QED
      BY <2>1, <2>2, <2>3, OneLost
  <1>5. CASE Exit(c)
    <2>1. PICK n \in Code(call[c].verdict) :
            call' = [call EXCEPT ![c] = [at |-> "done", verdict |-> Left(@.verdict), code |-> n]]
      BY <1>5 DEF Exit
    <2>2. /\ \A d \in Call \ {c} : call'[d] = call[d]
          /\ \A d \in Call : Lines(d)' = Lines(d)
          /\ call'[c].at = "done" /\ call'[c].verdict = Left(call[c].verdict) /\ call'[c].code = n
          /\ call[c].at = "exit" /\ full' = full /\ ragged' = ragged
      BY <1>5, <2>1 DEF Exit, HookTypeOK, At, Lines
    <2>3. n = BLOCK <=> call[c].verdict = "blocked"
      BY <2>1 DEF Code, ALLOW, BLOCK
    <2>4. Lines(c)' # {} => Lines(c)' = {call[c].verdict}
      BY <1>0, <2>2 DEF Tells, At
    <2>5. Tells(c)'
      BY <2>2, <2>3, <2>4 DEF Tells, At, Ended, Refused
    <2>6. c \in Lost' => c \in Lost
      BY <2>2 DEF Lost, At, Ended, Left
    <2> QED
      BY <1>0, <2>2, <2>5, <2>6, NothingLost
  <1>6. CASE KillGate(c)
    <2>1. /\ \A d \in Call \ {c} : call'[d] = call[d]
          /\ \A d \in Call : Lines(d)' = Lines(d)
          /\ call'[c].at = "done" /\ call'[c].code = 9 /\ full' = full /\ ragged' = ragged
      BY <1>6 DEF KillGate, HookTypeOK, Lines
    <2>2. Tells(c)' /\ c \notin Lost'
      BY <1>0, <2>1 DEF Tells, Lost, At, Ended
    <2> QED
      BY <1>0, <2>1, <2>2, NothingLost
  <1> QED
    BY <1>1, <1>2, <1>3, <1>4, <1>5, <1>6 DEF HookStep

\* Every step keeps it.
LEMMA AuditStep == TypeInv /\ AuditInv /\ [Next]_vars => AuditInv'
  <1> SUFFICES ASSUME TypeInv, AuditInv, [Next]_vars PROVE AuditInv'
    OBVIOUS
  <1>1. CASE UNCHANGED hookVars
    <2>1. Lost' = Lost /\ Owed' = Owed /\ full' = full
      BY <1>1 DEF hookVars, Lost, Lines, At, Ended, Owed
    <2>2. \A c \in Call : Tells(c)'
      BY <1>1 DEF hookVars, AuditInv, Tells, Lines, At, Ended, Refused
    <2> QED
      BY <2>1, <2>2 DEF AuditInv
  <1>2. ASSUME NEW c \in Call, GateStep(c) PROVE AuditInv'
    <2>1. CASE \E v \in Verdict \cup {"mute"} : Give(c, v) /\ call[c].at \in {"idle", "judge"}
      BY <2>1, GiveTells
    <2>2. CASE \E named \in SUBSET Candidate : Experiment(c, named)
      <3>1. /\ \A d \in Call \ {c} : call'[d] = call[d]
            /\ \A d \in Call : Lines(d)' = Lines(d)
            /\ call'[c].at = "judge" /\ call[c].at = "idle" /\ full' = full /\ ragged' = ragged
        BY <2>2 DEF Experiment, TypeInv, HookInv, HookTypeOK, At, Lines
      <3>2. Tells(c)' /\ c \notin Lost'
        BY <3>1 DEF AuditInv, Tells, Lost, At, Ended
      <3>3. ragged' \in BOOLEAN
        BY <3>1 DEF TypeInv, HookInv, HookTypeOK
      <3> QED
        BY <3>1, <3>2, <3>3, NothingLost
    <2>3. CASE HookStep(c)
      BY <2>3, HookKeeps
    <2> QED
      BY <1>1, <1>2, <2>1, <2>2, <2>3, HookMoves
  <1> QED
    BY <1>1, <1>2, Steps DEF vars

\* For any number of calls: none has two lines, the line of one whose gate exited says
\* what the harness was told, and each full disk costs the trail two lines at most.
THEOREM AuditCorrect == Spec => []AuditTrue
  BY AuditEnough, TypeInit, TypeStep, AuditInit, AuditStep, PTL DEF Spec
=============================================================================
