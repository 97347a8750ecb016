-------------------------- MODULE SequentialProofs --------------------------
(***************************************************************************)
(* Theorems about the parts that run by themselves: the API process, for   *)
(* every set of environments it starts in, the scan of the rules, for      *)
(* every set of phrases and every text, the promotion of a model, for      *)
(* every corpus and all scores, and the walk over the segments of an       *)
(* image, for any number of pieces.                                        *)
(***************************************************************************)
EXTENDS RuleScan, ImageInspection, ApiProcess, Evaluation, CountingFacts, SequenceTheorems, TLAPS

\* Where a process is that has taken all the steps of its startup, or has come past one.
PastJobs == {"built", "serving", "closing_jobs", "closing_engine", "stopped", "aborted"}
PastReview == PastJobs \cup {"jobs"}
PastImage == PastReview \cup {"review"}
PastIndex == PastImage \cup {"image"}
PastTransformer == PastIndex \cup {"index"}
PastBaseline == PastTransformer \cup {"transformer"}
PastImport == PastBaseline \cup {"baseline"}

\* A step that was taken built its part exactly if it was wanted, and then it was sound.
Taken(part, past, wanted, sound) ==
    /\ phase \in past => (part \in built <=> wanted) /\ (wanted => sound)
    /\ phase \notin past \cup {"failed"} => part \notin built

\* What every step of the startup has done so far.
StepsInv ==
    /\ phase \in {"import", "failed"} \cup PastImport
    /\ phase \in PastImport => SettingsValid
    /\ Taken("baseline", PastBaseline, env.baseline # "absent", env.baseline = "sound")
    /\ Taken("transformer", PastTransformer, env.transformer # "absent", env.transformer = "sound")
    /\ Taken("index", PastIndex, env.index # "unset", env.index = "reachable")
    /\ Taken("image", PastImage, env.image # "absent", env.image = "sound")
    /\ Taken("review", PastReview, env.review = "true",
             env.ledger = "sound" /\ env.credentials # "malformed")
    /\ Taken("jobs", PastJobs, env.distributed = "true", env.redis = "sound" /\ env.kafka = "sound")
    /\ ready <=> phase = "serving"

\* Which connections are open where.
OpenInv ==
    /\ open \subseteq {"qdrant", "redis", "kafka"}
    /\ "qdrant" \in open => phase \in (PastIndex \cup {"failed"}) \ {"stopped"}
    /\ phase \in PastIndex \ {"stopped"} => ("qdrant" \in open <=> "index" \in built)
    /\ ("redis" \in open \/ "kafka" \in open)
          => phase \in {"failed", "built", "serving", "closing_jobs", "aborted"}

\* The values that matter are values of their settings.
EnvInv == /\ env.baseline \in Artifact /\ env.transformer \in Artifact /\ env.image \in Artifact
          /\ env.credentials \in {"example", "issued", "malformed"}

\* The inductive invariant of the process.
ProcessInv == StepsInv /\ OpenInv /\ EnvInv

\* A process starts with the values its environment gives, and nothing built.
LEMMA ProcessStarts == ProcessInit => ProcessInv
<1>. SUFFICES ASSUME ProcessInit PROVE ProcessInv
  OBVIOUS
<1>1. PICK base \in BaseEnvironments, a \in DOMAIN Setting, b \in DOMAIN Setting :
          \E x \in Setting[a], y \in Setting[b] : env = [base EXCEPT ![a] = x, ![b] = y]
  BY DEF ProcessInit
<1>2. PICK x \in Setting[a], y \in Setting[b] : env = [base EXCEPT ![a] = x, ![b] = y]
  BY <1>1
<1>3. /\ base \in [DOMAIN Setting -> UNION {Setting[f] : f \in DOMAIN Setting}]
      /\ \A f \in DOMAIN Setting : base[f] \in Setting[f]
  BY EnvironmentAssumption
<1>4. \A f \in DOMAIN Setting : env[f] \in Setting[f]
  BY <1>2, <1>3
<1>5. {"baseline", "transformer", "image", "credentials"} \subseteq DOMAIN Setting
  BY DEF Setting
<1>6. /\ env.baseline \in Setting.baseline /\ env.transformer \in Setting.transformer
      /\ env.image \in Setting.image /\ env.credentials \in Setting.credentials
  BY <1>4, <1>5
<1>7. /\ env.baseline \in Artifact /\ env.transformer \in Artifact /\ env.image \in Artifact
      /\ env.credentials \in {"example", "issued", "malformed"}
  BY <1>6 DEF Setting
<1>. QED  BY <1>7 DEF ProcessInit, ProcessInv, StepsInv, OpenInv, EnvInv, Taken, PastJobs, PastReview, PastImage,
              PastIndex, PastTransformer, PastBaseline, PastImport

\* Every step of the startup and of the shutdown preserves the invariant.
LEMMA ProcessGoesOn == ProcessInv /\ [ProcessNext]_process => ProcessInv'
<1>. SUFFICES ASSUME ProcessInv, [ProcessNext]_process PROVE ProcessInv'
  OBVIOUS
<1>. USE DEF PastJobs, PastReview, PastImage, PastIndex, PastTransformer, PastBaseline, PastImport
<1>1. env' = env
  BY DEF ProcessNext, ImportSettings, LoadBaseline, LoadTransformer, ConnectIndex, LoadImageModel,
         BuildReviewSystem, BuildJobService, Step, Serve, Stop, CloseJobService, CloseEngine, process
<1>2. EnvInv' /\ (SettingsValid' <=> SettingsValid)
  BY <1>1 DEF ProcessInv, EnvInv, SettingsValid
<1>. USE <1>1, <1>2 DEF ProcessInv, StepsInv, OpenInv, Taken, Step
<1>3. CASE ImportSettings
  <2>1. StepsInv'
    BY <1>3 DEF ImportSettings
  <2>2. OpenInv'
    BY <1>3 DEF ImportSettings
  <2>. QED  BY <2>1, <2>2
<1>4. CASE LoadBaseline
  <2>1. StepsInv'
    BY <1>4 DEF LoadBaseline
  <2>2. OpenInv'
    BY <1>4 DEF LoadBaseline
  <2>. QED  BY <2>1, <2>2
<1>5. CASE LoadTransformer
  <2>1. StepsInv'
    BY <1>5 DEF LoadTransformer
  <2>2. OpenInv'
    BY <1>5 DEF LoadTransformer
  <2>. QED  BY <2>1, <2>2
<1>6. CASE ConnectIndex
  <2>1. StepsInv'
    BY <1>6 DEF ConnectIndex
  <2>2. OpenInv'
    BY <1>6 DEF ConnectIndex
  <2>. QED  BY <2>1, <2>2
<1>7. CASE LoadImageModel
  <2>1. StepsInv'
    BY <1>7 DEF LoadImageModel
  <2>2. OpenInv'
    BY <1>7 DEF LoadImageModel
  <2>. QED  BY <2>1, <2>2
<1>8. CASE BuildReviewSystem
  <2>1. StepsInv'
    BY <1>8 DEF BuildReviewSystem, RuntimeTrue
  <2>2. OpenInv'
    BY <1>8 DEF BuildReviewSystem, RuntimeTrue
  <2>. QED  BY <2>1, <2>2
<1>9. CASE BuildJobService
  <2>1. StepsInv'
    BY <1>9 DEF BuildJobService, RuntimeTrue
  <2>2. OpenInv'
    BY <1>9 DEF BuildJobService, RuntimeTrue
  <2>. QED  BY <2>1, <2>2
<1>10. CASE Serve
  <2>1. StepsInv'
    BY <1>10 DEF Serve
  <2>2. OpenInv'
    BY <1>10 DEF Serve
  <2>. QED  BY <2>1, <2>2
<1>11. CASE Stop
  <2>1. StepsInv'
    BY <1>11 DEF Stop
  <2>2. OpenInv'
    BY <1>11 DEF Stop
  <2>. QED  BY <2>1, <2>2
<1>12. CASE CloseJobService
  <2>1. StepsInv'
    BY <1>12 DEF CloseJobService
  <2>2. OpenInv'
    BY <1>12 DEF CloseJobService
  <2>. QED  BY <2>1, <2>2
<1>13. CASE CloseEngine
  <2>1. StepsInv'
    BY <1>13 DEF CloseEngine
  <2>2. OpenInv'
    BY <1>13 DEF CloseEngine
  <2>. QED  BY <2>1, <2>2
<1>14. CASE UNCHANGED process
  BY <1>14 DEF process
<1>. QED  BY <1>3, <1>4, <1>5, <1>6, <1>7, <1>8, <1>9, <1>10, <1>11, <1>12, <1>13, <1>14 DEF ProcessNext

\* The inductive invariant of the process holds from its import to its end.
THEOREM ProcessInvHolds == ProcessSpec => []ProcessInv
BY ProcessStarts, ProcessGoesOn, PTL DEF ProcessSpec

\* A process that serves in production is guarded, whatever its switches were set to.
THEOREM ProductionAlwaysGuarded == ProcessSpec => []ProductionIsGuarded
<1>1. ProcessInv => ProductionIsGuarded
  BY DEF ProcessInv, StepsInv, OpenInv, EnvInv, ProductionIsGuarded, Taken, SettingsValid, Boolean,
         PastJobs, PastReview, PastImage, PastIndex, PastTransformer, PastBaseline, PastImport
<1>. QED  BY <1>1, ProcessInvHolds, PTL

\* A process that says it is ready has every part its environment asks for.
THEOREM ReadyIsComplete == ProcessSpec => []ReadyMeansComplete
<1>1. ProcessInv => ReadyMeansComplete
  BY DEF ProcessInv, StepsInv, OpenInv, EnvInv, ReadyMeansComplete, Taken, Artifact,
         PastJobs, PastReview, PastImage, PastIndex, PastTransformer, PastBaseline, PastImport
<1>. QED  BY <1>1, ProcessInvHolds, PTL

\* A process that stopped in order closed what it had opened.
THEOREM StopAlwaysCloses == ProcessSpec => []StopClosesEverything
<1>1. ProcessInv => StopClosesEverything
  BY DEF ProcessInv, StepsInv, OpenInv, EnvInv, StopClosesEverything, Taken,
         PastJobs, PastReview, PastImage, PastIndex, PastTransformer, PastBaseline, PastImport
<1>. QED  BY <1>1, ProcessInvHolds, PTL

-----------------------------------------------------------------------------
(***************************************************************************)
(* The scan of the rules.                                                  *)
(***************************************************************************)

\* Phrase p occurs at position i of the text.
OccursAt(p, i) == /\ i \in Nat \ {0} /\ i + Len(p) <= Len(content) + 1
                  /\ SubSeq(content, i, i + Len(p) - 1) = p

\* An occurrence the scan has come by, at earlier starts or on its way down.
Passed(p, i) == i < start \/ (i = start /\ Len(p) <= Len(node))

\* The node is what was read since the start, and the phrases that occur in
\* what was read are the matches.
ScanInv ==
    /\ phrases \subseteq Seq(Character) \ {<<>>} /\ content \in Seq(Character)
    /\ start \in 1..(Len(content) + 1) /\ node \in Seq(Character)
    /\ start + Len(node) <= Len(content) + 1
    /\ node = SubSeq(content, start, start + Len(node) - 1)
    /\ matches \subseteq phrases
    /\ \A p \in phrases : p \in matches <=> \E i \in Nat : OccursAt(p, i) /\ Passed(p, i)

\* A part of a sequence, element by element.
LEMMA PartIs ==
    ASSUME NEW C, NEW s \in Seq(C), NEW i \in Nat \ {0}, NEW n \in Nat, i + n <= Len(s) + 1
    PROVE  /\ SubSeq(s, i, i + n - 1) \in Seq(C) /\ Len(SubSeq(s, i, i + n - 1)) = n
           /\ \A k \in 1..n : SubSeq(s, i, i + n - 1)[k] = s[i + k - 1]
<1>1. i \in Int /\ i + n - 1 \in Int /\ (i + n - 1) - i + 1 = n
  OBVIOUS
<1>2. \A k \in i..(i + n - 1) : s[k] \in C
  OBVIOUS
<1>3. PICK j \in Int : j = i + n - 1
  BY <1>1
<1>4. /\ SubSeq(s, i, j) \in Seq(C)
      /\ Len(SubSeq(s, i, j)) = IF i <= j THEN j - i + 1 ELSE 0
      /\ \A k \in 1..(j - i + 1) : SubSeq(s, i, j)[k] = s[i + k - 1]
  BY <1>2, <1>3, SubSeqProperties
<1>5. j - i + 1 = n /\ (IF i <= j THEN j - i + 1 ELSE 0) = n
  BY <1>1, <1>3
<1>6. Len(SubSeq(s, i, j)) = n /\ \A k \in 1..n : SubSeq(s, i, j)[k] = s[i + k - 1]
  BY <1>4, <1>5
<1>. QED  BY <1>3, <1>4, <1>6

\* What an occurrence of a phrase starts with is what the phrase starts with.
LEMMA OccurrenceStarts ==
    ASSUME NEW C, NEW s \in Seq(C), NEW i \in Nat \ {0}, NEW p \in Seq(C), NEW l \in Nat,
           l = Len(p), i + l <= Len(s) + 1, SubSeq(s, i, i + l - 1) = p, NEW n \in 0..l
    PROVE  SubSeq(s, i, i + n - 1) = SubSeq(p, 1, n)
<1>2. \A k \in 1..l : p[k] = s[i + k - 1]
  BY PartIs
<1>3. i + n <= Len(s) + 1 /\ n \in Nat /\ 1 + n <= Len(p) + 1 /\ 1 + n - 1 = n
  OBVIOUS
<1>4. PICK t : t = SubSeq(s, i, i + n - 1)
  OBVIOUS
<1>5. PICK q : q = SubSeq(p, 1, n)
  OBVIOUS
<1>6. t \in Seq(C) /\ Len(t) = n /\ \A k \in 1..n : t[k] = s[i + k - 1]
  BY <1>3, <1>4, PartIs
<1>7. q \in Seq(C) /\ Len(q) = n /\ \A k \in 1..n : q[k] = p[1 + k - 1]
  <2>1. q = SubSeq(p, 1, 1 + n - 1)
    BY <1>3, <1>5
  <2>. QED  BY <1>3, <2>1, PartIs
<1>8. \A k \in 1..n : t[k] = q[k]
  <2>. SUFFICES ASSUME NEW k \in 1..n PROVE t[k] = q[k]
    OBVIOUS
  <2>1. 1 + k - 1 = k /\ k \in 1..l
    OBVIOUS
  <2>. QED  BY <1>2, <1>6, <1>7, <2>1
<1>. QED  BY <1>4, <1>5, <1>6, <1>7, <1>8, SeqEqual

\* The scan starts with nothing read and nothing found.
LEMMA ScanStarts == ScanInit => ScanInv
<1>. SUFFICES ASSUME ScanInit PROVE ScanInv
  OBVIOUS
<1>1. phrases \subseteq Seq(Character) \ {<<>>} /\ content \in Seq(Character)
  BY ScanAssumption DEF ScanInit
<1>2. Len(node) = 0 /\ start = 1 /\ node = <<>> /\ matches = {}
  BY DEF ScanInit
<1>3. node = SubSeq(content, start, start + Len(node) - 1)
  BY <1>2, SubSeqEmpty, start + Len(node) - 1 < start
<1>4. ASSUME NEW p \in phrases, NEW i \in Nat, OccursAt(p, i), Passed(p, i) PROVE FALSE
  <2>1. p \in Seq(Character) /\ p # <<>>
    BY <1>1
  <2>2. Len(p) \in Nat \ {0}
    BY <2>1, EmptySeq
  <2>. QED  BY <1>2, <1>4, <2>2 DEF OccursAt, Passed
<1>. QED  BY <1>1, <1>2, <1>3, <1>4, EmptySeq DEF ScanInv

\* The scan reads one more character, or goes on from the next one.
LEMMA ScanGoesOn == ScanInv /\ [ScanNext]_scan => ScanInv'
<1>. SUFFICES ASSUME ScanInv, [ScanNext]_scan PROVE ScanInv'
  OBVIOUS
<1>1. /\ phrases \subseteq Seq(Character) \ {<<>>} /\ content \in Seq(Character)
      /\ node \in Seq(Character) /\ matches \subseteq phrases
      /\ node = SubSeq(content, start, start + Len(node) - 1)
  BY DEF ScanInv
<1>2. PICK l \in Nat, n \in Nat, k \in Nat \ {0} :
         /\ l = Len(content) /\ n = Len(node) /\ k = start /\ k + n <= l + 1 /\ k <= l + 1
  <2>1. Len(content) \in Nat /\ Len(node) \in Nat
    BY <1>1
  <2>2. start \in 1..(Len(content) + 1) /\ start + Len(node) <= Len(content) + 1
    BY DEF ScanInv
  <2>3. start \in Nat \ {0} /\ start <= Len(content) + 1
    BY <2>1, <2>2
  <2>. QED  BY <2>1, <2>2, <2>3
<1>3. ASSUME NEW p \in phrases
      PROVE  /\ p \in Seq(Character) /\ Len(p) \in Nat \ {0}
             /\ p \in matches <=> \E i \in Nat : OccursAt(p, i) /\ Passed(p, i)
  BY <1>1, EmptySeq DEF ScanInv
<1>4. CASE Descend
  <2>1. PICK a : a = SubSeq(content, k, k + n)
    OBVIOUS
  <2>2. /\ a = Ahead /\ node' = a /\ start' = k /\ content' = content /\ phrases' = phrases
        /\ matches' = matches \cup ({a} \cap phrases) /\ k + n <= l
    BY <1>2, <1>4, <2>1 DEF Descend, HasChild, Ahead, Outputs
  <2>3. a \in Seq(Character) /\ Len(a) = n + 1 /\ a = SubSeq(content, k, k + (n + 1) - 1)
    <3>1. n + 1 \in Nat /\ k + (n + 1) - 1 = k + n /\ k + (n + 1) <= l + 1
      BY <2>2
    <3>. QED  BY <1>1, <1>2, <2>1, <3>1, PartIs
  <2>4. ASSUME NEW p \in phrases, NEW i \in Nat
        PROVE  /\ OccursAt(p, i)' <=> OccursAt(p, i)
               /\ Passed(p, i)' <=> Passed(p, i) \/ (i = k /\ Len(p) = n + 1)
    <3>1. Len(p) <= n + 1 <=> Len(p) <= n \/ Len(p) = n + 1
      BY <1>3
    <3>. QED  BY <1>2, <2>2, <2>3, <3>1 DEF OccursAt, Passed
  <2>5. ASSUME NEW p \in phrases
        PROVE  p = a <=> OccursAt(p, k) /\ Len(p) = n + 1
    BY <1>2, <1>3, <2>2, <2>3 DEF OccursAt
  <2>6. ASSUME NEW p \in phrases
        PROVE  p \in matches' <=> \E i \in Nat : OccursAt(p, i)' /\ Passed(p, i)'
    BY <1>3, <2>2, <2>4, <2>5
  <2>7. k + (n + 1) <= l + 1
    BY <2>2
  <2>. QED  BY <1>1, <1>2, <2>2, <2>3, <2>6, <2>7 DEF ScanInv
<1>5. CASE NextStart
  <2>1. /\ k <= l /\ ~HasChild /\ node' = <<>> /\ start' = k + 1
        /\ content' = content /\ phrases' = phrases /\ matches' = matches
    BY <1>2, <1>5 DEF NextStart, Scanned
  <2>2. ASSUME NEW p \in phrases, OccursAt(p, k), Len(p) > n
        PROVE  FALSE
    <3>1. PICK m \in Nat : m = Len(p)
      BY <1>3
    <3>2. k + m <= l + 1 /\ SubSeq(content, k, k + m - 1) = p /\ n + 1 \in 0..m
      BY <1>2, <2>2, <3>1 DEF OccursAt
    <3>3. SubSeq(content, k, k + (n + 1) - 1) = SubSeq(p, 1, n + 1)
      BY <1>1, <1>2, <1>3, <3>1, <3>2, OccurrenceStarts
    <3>4. k + (n + 1) - 1 = k + n /\ k + n <= l
      BY <3>2
    <3>5. Ahead \in Nodes
      <4>1. Ahead = SubSeq(p, 1, n + 1)
        BY <1>2, <3>3, <3>4 DEF Ahead
      <4>2. n + 1 \in 0..Len(p)
        BY <3>1, <3>2
      <4>. QED  BY <4>1, <4>2 DEF Nodes
    <3>. QED  BY <1>2, <2>1, <3>4, <3>5 DEF HasChild
  <2>3. ASSUME NEW p \in phrases, NEW i \in Nat, OccursAt(p, i)
        PROVE  Passed(p, i)' <=> Passed(p, i)
    <3>1. Len(node') = 0 /\ Len(p) \in Nat \ {0}
      BY <1>3, <2>1
    <3>2. Passed(p, i)' <=> i < k + 1
      BY <2>1, <3>1 DEF Passed
    <3>3. i = k => Len(p) <= n
      BY <2>2, <2>3, <3>1
    <3>. QED  BY <1>2, <3>2, <3>3 DEF Passed
  <2>4. ASSUME NEW p \in phrases
        PROVE  p \in matches' <=> \E i \in Nat : OccursAt(p, i)' /\ Passed(p, i)'
    <3>1. \A i \in Nat : OccursAt(p, i)' <=> OccursAt(p, i)
      BY <2>1 DEF OccursAt
    <3>. QED  BY <1>3, <2>1, <2>3, <3>1
  <2>5. Len(node') = 0 /\ node' \in Seq(Character)
    BY <2>1, EmptySeq
  <2>6. node' = SubSeq(content, k + 1, (k + 1) + Len(node') - 1)
    BY <2>1, <2>5, SubSeqEmpty, (k + 1) + Len(node') - 1 < k + 1
  <2>. QED  BY <1>1, <1>2, <2>1, <2>4, <2>5, <2>6 DEF ScanInv
<1>6. CASE UNCHANGED scan
  BY <1>6 DEF scan, ScanInv, OccursAt, Passed
<1>. QED  BY <1>4, <1>5, <1>6 DEF ScanNext

\* The inductive invariant of the scan.
THEOREM ScanInvHolds == ScanSpec => []ScanInv
BY ScanStarts, ScanGoesOn, PTL DEF ScanSpec

\* The scan finds the phrases that occur, all of them and no others.
THEOREM RulesAreFound == ScanSpec => []RulesThatOccurAreFound
<1>1. ScanInv => RulesThatOccurAreFound
  <2>. SUFFICES ASSUME ScanInv, Scanned
       PROVE  matches = {p \in phrases : \E i \in 1..(Len(content) + 1 - Len(p)) :
                                           SubSeq(content, i, i + Len(p) - 1) = p}
    BY DEF RulesThatOccurAreFound
  <2>1. ASSUME NEW p \in phrases
        PROVE  p \in matches <=> \E i \in 1..(Len(content) + 1 - Len(p)) :
                                      SubSeq(content, i, i + Len(p) - 1) = p
    <3>1. PICK l \in Nat : l = Len(content) /\ start = l + 1
      BY DEF ScanInv, Scanned
    <3>2. PICK m \in Nat \ {0} : m = Len(p)
      BY EmptySeq DEF ScanInv
    <3>3. \A i \in Nat : OccursAt(p, i) => Passed(p, i)
      BY <3>1, <3>2 DEF OccursAt, Passed
    <3>4. \A i \in Nat : i \in 1..(l + 1 - m) <=> i \in Nat \ {0} /\ i + m <= l + 1
      OBVIOUS
    <3>5. p \in matches <=> \E i \in Nat : OccursAt(p, i)
      BY <3>3 DEF ScanInv
    <3>6. \A i \in Nat : OccursAt(p, i) <=> i \in 1..(l + 1 - m) /\ SubSeq(content, i, i + m - 1) = p
      BY <3>1, <3>2, <3>4 DEF OccursAt
    <3>7. p \in matches <=> \E i \in 1..(l + 1 - m) : SubSeq(content, i, i + m - 1) = p
      <4>1. \A i \in 1..(l + 1 - m) : i \in Nat
        OBVIOUS
      <4>. QED  BY <3>5, <3>6, <4>1
    <3>. QED  BY <3>1, <3>2, <3>7
  <2>. QED  BY <2>1 DEF ScanInv
<1>. QED  BY <1>1, ScanInvHolds, PTL

-----------------------------------------------------------------------------
(***************************************************************************)
(* The promotion of a model.                                               *)
(***************************************************************************)

\* A scored variant, as the reports count it.
Variant(s) == s.label \in {0, 1} /\ s.score \in Nat

\* What is scored is finite and covers the labels of the corpus, and only a
\* report that passes the gates promotes.
EvaluationInv ==
    /\ \E n \in Nat : lines \in [1..n -> [id : CaseId, label : {0, 1}]]
    /\ IsFiniteSet(scored)
    /\ \A s \in scored : Variant(s)
    /\ scored # {} => \A i \in DOMAIN lines : \E s \in scored : s.label = lines[i].label
    /\ verdict \in {"scoring", "promoted"} => CorpusValid
    /\ verdict = "promoted" => PassesGates /\ \A a \in Attack : Slice(a) # {}

\* The variants a step adds are finitely many.
Variants(attack, scores) ==
    {[id |-> lines[i].id, label |-> lines[i].label, attack |-> attack, score |-> scores[i]] :
        i \in DOMAIN lines}

\* One line of the corpus gives one variant, so there are finitely many.
LEMMA VariantsAreFinite ==
    ASSUME NEW n \in Nat, lines \in [1..n -> [id : CaseId, label : {0, 1}]],
           NEW attack, NEW scores
    PROVE  IsFiniteSet(Variants(attack, scores))
<1>. DEFINE f == [i \in 1..n |-> [id |-> lines[i].id, label |-> lines[i].label,
                                  attack |-> attack, score |-> scores[i]]]
<1>1. Variants(attack, scores) = {f[i] : i \in 1..n}
  BY DEF Variants
<1>2. f \in Surjection(1..n, {f[i] : i \in 1..n})
  BY DEF Surjection
<1>3. IsFiniteSet(1..n)
  BY FS_Interval
<1>. QED  BY <1>1, <1>2, <1>3, FS_Surjection

\* An evaluation starts with a corpus and no scores.
LEMMA EvaluationStarts == EvaluationInit => EvaluationInv
<1>. SUFFICES ASSUME EvaluationInit PROVE EvaluationInv
  OBVIOUS
<1>1. PICK n \in 0..MaxLines : lines \in [1..n -> [id : CaseId, label : {0, 1}]]
  BY DEF EvaluationInit
<1>2. n \in Nat
  OBVIOUS
<1>. QED  BY <1>1, <1>2, FS_EmptySet DEF EvaluationInit, EvaluationInv

\* What each step does to the scores and the verdict.
LEMMA EvaluationGoesOn == EvaluationInv /\ [EvaluationNext]_evaluation => EvaluationInv'
<1>. SUFFICES ASSUME EvaluationInv, [EvaluationNext]_evaluation PROVE EvaluationInv'
  OBVIOUS
<1>1. PICK n \in Nat : lines \in [1..n -> [id : CaseId, label : {0, 1}]]
  BY DEF EvaluationInv
<1>2. lines' = lines
  BY DEF EvaluationNext, LoadCases, ScoreVariants, Gate, evaluation
<1>3. CorpusValid' <=> CorpusValid
  BY <1>2 DEF CorpusValid, Distinct, Labels
<1>4. CASE LoadCases
  <2>1. scored' = scored /\ verdict' \in {"scoring", "refused"}
        /\ (verdict' = "scoring" => CorpusValid)
    BY <1>4 DEF LoadCases
  <2>. QED  BY <1>2, <1>3, <2>1 DEF EvaluationInv, Variant
<1>5. ASSUME NEW attack \in Attack, ScoreVariants(attack)
      PROVE  EvaluationInv'
  <2>1. verdict = "scoring" /\ verdict' \in {"scoring", "refused"}
    BY <1>5 DEF ScoreVariants
  <2>2. PICK scores \in [DOMAIN lines -> Score] : scored' = scored \cup Variants(attack, scores)
    BY <1>5 DEF ScoreVariants, Variants
  <2>3. IsFiniteSet(scored')
    <3>1. IsFiniteSet(scored) /\ IsFiniteSet(Variants(attack, scores))
      BY <1>1, VariantsAreFinite DEF EvaluationInv
    <3>. QED  BY <2>2, <3>1, FS_Union
  <2>4. ASSUME NEW s \in Variants(attack, scores)
        PROVE  Variant(s)
    <3>1. PICK i \in DOMAIN lines :
             s = [id |-> lines[i].id, label |-> lines[i].label, attack |-> attack, score |-> scores[i]]
      BY <2>4 DEF Variants
    <3>2. i \in 1..n /\ lines[i].label \in {0, 1} /\ scores[i] \in Nat
      BY <1>1, ScoreAssumption
    <3>. QED  BY <3>1, <3>2 DEF Variant
  <2>5. ASSUME NEW i \in DOMAIN lines
        PROVE  \E s \in scored' : s.label = lines[i].label
    <3>1. PICK s : s = [id |-> lines[i].id, label |-> lines[i].label, attack |-> attack,
                        score |-> scores[i]]
      OBVIOUS
    <3>2. s \in Variants(attack, scores) /\ s.label = lines[i].label
      BY <3>1 DEF Variants
    <3>. QED  BY <2>2, <3>2
  <2>6. \A s \in scored' : Variant(s)
    BY <2>2, <2>4 DEF EvaluationInv
  <2>7. CorpusValid'
    BY <1>3, <2>1 DEF EvaluationInv
  <2>. QED  BY <1>1, <1>2, <2>1, <2>3, <2>5, <2>6, <2>7 DEF EvaluationInv, Variant
<1>6. CASE Gate
  <2>1. verdict = "scoring" /\ scored' = scored /\ \A a \in Attack : Slice(a) # {}
    BY <1>6 DEF Gate
  <2>2. verdict' \in {"promoted", "failed"} /\ (verdict' = "promoted" => PassesGates)
    BY <1>6 DEF Gate
  <2>3. PassesGates' <=> PassesGates
    BY <2>1 DEF PassesGates, Recall, Precision, FalsePositiveRate, WorstAttackRecall, RecallDrop,
       Cell, Slice
  <2>4. \A a \in Attack : Slice(a)' = Slice(a)
    BY <2>1 DEF Slice
  <2>5. CorpusValid'
    BY <1>3, <2>1 DEF EvaluationInv
  <2>. QED  BY <1>1, <1>2, <2>1, <2>2, <2>3, <2>4, <2>5 DEF EvaluationInv, Variant
<1>7. CASE UNCHANGED evaluation
  <2>1. lines' = lines /\ scored' = scored /\ verdict' = verdict
    BY <1>7 DEF evaluation
  <2>2. PassesGates' <=> PassesGates
    BY <2>1 DEF PassesGates, Recall, Precision, FalsePositiveRate, WorstAttackRecall, RecallDrop,
       Cell, Slice
  <2>3. \A a \in Attack : Slice(a)' = Slice(a)
    BY <2>1 DEF Slice
  <2>. QED  BY <1>3, <2>1, <2>2, <2>3 DEF EvaluationInv, Variant
<1>. QED  BY <1>4, <1>5, <1>6, <1>7 DEF EvaluationNext

\* The inductive invariant of an evaluation.
THEOREM EvaluationInvHolds == EvaluationSpec => []EvaluationInv
BY EvaluationStarts, EvaluationGoesOn, PTL DEF EvaluationSpec

\* A cell of a report counts finitely many variants.
LEMMA CellsAreNumbers ==
    ASSUME EvaluationInv, NEW items \in SUBSET scored, NEW label, NEW flagged
    PROVE  /\ Cell(items, label, flagged) \in Nat
           /\ Cell(items, label, flagged) = 0 =>
                 \A s \in items : ~(s.label = label /\ (s.score >= Threshold) = flagged)
<1>. DEFINE cell == {s \in items : s.label = label /\ (s.score >= Threshold) = flagged}
<1>1. cell \in SUBSET scored /\ IsFiniteSet(scored)
  BY DEF EvaluationInv
<1>2. IsFiniteSet(cell) /\ Cardinality(cell) \in Nat
  BY <1>1, FS_Subset, FS_CardinalityType
<1>3. Cardinality(cell) = 0 => cell = {}
  BY <1>2, FS_EmptySet
<1>4. Cell(items, label, flagged) = Cardinality(cell)
  BY DEF Cell
<1>. QED  BY <1>2, <1>3, <1>4

\* A rate is zero of nothing, and everything when nothing is missed.
LEMMA RatesAre ==
    ASSUME NEW n \in Nat, NEW m \in Nat
    PROVE  /\ Rate(n, m) \in Nat
           /\ n = 0 => Rate(n, m) = 0
           /\ m = 0 /\ n # 0 => Rate(n, m) = 10000
<1>1. CASE n + m = 0
  BY <1>1 DEF Rate
<1>2. CASE n + m # 0
  <2>1. Rate(n, m) = (10000 * n) \div (n + m) /\ n + m \in Nat \ {0}
    BY <1>2 DEF Rate
  <2>2. \A a \in Nat : \A b \in Nat \ {0} : a \div b \in Nat
    OBVIOUS
  <2>3. n = 0 => (10000 * n) \div (n + m) = 0
    <3>1. \A b \in Nat \ {0} : 0 \div b = 0
      OBVIOUS
    <3>. QED  BY <2>1, <3>1
  <2>4. m = 0 => (10000 * n) \div (n + m) = 10000
    <3>1. \A b \in Nat \ {0} : (10000 * b) \div b = 10000
      OBVIOUS
    <3>. QED  BY <2>1, <3>1
  <2>5. 10000 * n \in Nat
    OBVIOUS
  <2>. QED  BY <1>2, <2>1, <2>2, <2>3, <2>4, <2>5
<1>. QED  BY <1>1, <1>2

\* The least of some natural numbers is below each of them.
LEMMA LeastIs ==
    ASSUME NEW S \in SUBSET Nat, NEW k \in S
    PROVE  Min(S) \in Nat /\ Min(S) <= k
<1>1. \E m \in S : \A j \in S : m <= j
  BY LeastNumber
<1>2. Min(S) \in S /\ \A j \in S : Min(S) <= j
  BY <1>1, Zenon DEF Min
<1>. QED  BY <1>2

\* The recall on each of the attacks, as a set of its own.
Recalls == {Recall(Slice(a)) : a \in Attacked}

\* A promoted model finds unsafe texts under every attack and lets safe ones pass.
THEOREM PromotionsAreEarned == EvaluationSpec => []PromotionIsEarned
<1>1. EvaluationInv => PromotionIsEarned
  <2>. SUFFICES ASSUME EvaluationInv, verdict = "promoted"
       PROVE  /\ \A a \in Attacked : Cell(Slice(a), 1, TRUE) > 0
              /\ Cell(scored, 0, FALSE) > 0
    BY DEF PromotionIsEarned
  <2>1. PassesGates /\ CorpusValid /\ scored # {}
    BY AttackAssumption DEF EvaluationInv, Slice
  <2>2. ASSUME NEW a \in Attack
        PROVE  /\ Cell(Slice(a), 1, TRUE) \in Nat /\ Recall(Slice(a)) \in Nat
               /\ Cell(Slice(a), 1, TRUE) = 0 => Recall(Slice(a)) = 0
    <3>1. Slice(a) \in SUBSET scored
      BY DEF Slice
    <3>2. Cell(Slice(a), 1, TRUE) \in Nat /\ Cell(Slice(a), 1, FALSE) \in Nat
      BY <3>1, CellsAreNumbers
    <3>3. PICK n \in Nat, m \in Nat : n = Cell(Slice(a), 1, TRUE) /\ m = Cell(Slice(a), 1, FALSE)
      BY <3>2
    <3>4. Recall(Slice(a)) = Rate(n, m)
      BY <3>3, Zenon DEF Recall
    <3>5. Rate(n, m) \in Nat /\ (n = 0 => Rate(n, m) = 0)
      BY RatesAre
    <3>. QED  BY <3>3, <3>4, <3>5, Zenon
  <2>3. ASSUME NEW a \in Attacked
        PROVE  Cell(Slice(a), 1, TRUE) > 0
    <3>1. Recalls \in SUBSET Nat /\ Recall(Slice(a)) \in Recalls /\ a \in Attack
      BY <2>2 DEF Recalls, Attacked
    <3>2. Min(Recalls) \in Nat /\ Min(Recalls) <= Recall(Slice(a))
      BY <3>1, LeastIs
    <3>3. WorstAttackRecall = Min(Recalls)
      BY <2>3 DEF WorstAttackRecall, Recalls
    <3>4. Min(Recalls) >= 100 * Requirement.worstAttackRecall
      BY <2>1, <3>3 DEF PassesGates
    <3>5. Requirement.worstAttackRecall \in Nat \ {0}
      BY RequirementAssumption
    <3>6. PICK q \in Nat \ {0}, k \in Nat, r \in Nat :
             /\ q = Requirement.worstAttackRecall /\ k = Min(Recalls) /\ r = Recall(Slice(a))
             /\ k <= r /\ k >= 100 * q
      BY <2>2, <3>1, <3>2, <3>4, <3>5
    <3>7. r # 0
      <4>1. 100 * q >= 100 /\ 100 * q \in Nat
        OBVIOUS
      <4>. QED  BY <3>6, <4>1
    <3>8. PICK c \in Nat : c = Cell(Slice(a), 1, TRUE)
      BY <2>2, <3>1, Zenon
    <3>9. c # 0
      BY <2>2, <3>1, <3>6, <3>7, <3>8, Zenon
    <3>10. c > 0
      BY <3>9
    <3>. QED  BY <3>8, <3>10, Zenon
  <2>4. PICK i \in DOMAIN lines : lines[i].label = 0
    BY <2>1 DEF CorpusValid, Labels
  <2>5. PICK s \in scored : s.label = 0 /\ s.score \in Nat
    BY <2>1, <2>4 DEF EvaluationInv, Variant
  <2>6. (s.score >= Threshold) = TRUE \/ (s.score >= Threshold) = FALSE
    OBVIOUS
  <2>7. PICK n \in Nat, m \in Nat : n = Cell(scored, 0, TRUE) /\ m = Cell(scored, 0, FALSE)
    BY CellsAreNumbers
  <2>8. n # 0 \/ m # 0
    BY <2>5, <2>6, <2>7, CellsAreNumbers
  <2>9. Rate(n, m) <= 100 * Requirement.falsePositiveRate
    BY <2>1, <2>7 DEF PassesGates, FalsePositiveRate
  <2>10. m # 0
    <3>1. m = 0 => Rate(n, m) = 10000
      BY <2>8, RatesAre
    <3>2. PICK q \in 0..99 : q = Requirement.falsePositiveRate
      BY RequirementAssumption
    <3>3. 100 * q <= 9900
      OBVIOUS
    <3>4. Rate(n, m) <= 100 * q
      BY <2>9, <3>2
    <3>. QED  BY <3>1, <3>3, <3>4
  <2>11. m > 0
    BY <2>10
  <2>. QED  BY <2>3, <2>7, <2>11, Zenon
<1>. QED  BY <1>1, EvaluationInvHolds, PTL
-----------------------------------------------------------------------------
\* What the first n pieces spell, piece by piece.
Spells(g, S, p, n) ==
    /\ g \in [0..n -> Seq(S)]
    /\ g[0] = << >>
    /\ \A i \in 1..n : g[i] = g[i - 1] \o p[i]

\* One sequence begins another.
Begins(s, t) == Len(s) <= Len(t) /\ \A i \in 1..Len(s) : t[i] = s[i]

\* A spelling goes on with the next piece.
LEMMA SpellingGoesOn ==
    ASSUME NEW S, NEW p \in Seq(Seq(S)), NEW n \in Nat, n + 1 <= Len(p),
           NEW h, Spells(h, S, p, n)
    PROVE  \E g : Spells(g, S, p, n + 1)
<1>0. Len(p) \in Nat /\ n + 1 \in 1..Len(p)
  BY LenProperties
<1>. DEFINE next == h[n] \o p[n + 1]
<1>1. next \in Seq(S)
  <2>1. p[n + 1] \in Seq(S)
    BY <1>0, ElementOfSeq
  <2>2. h[n] \in Seq(S)
    BY DEF Spells
  <2>. QED  BY <2>1, <2>2, ConcatProperties
<1>. HIDE DEF next
<1>. DEFINE g == [i \in 0..(n + 1) |-> IF i = n + 1 THEN next ELSE h[i]]
<1>2. g \in [0..(n + 1) -> Seq(S)]
  BY <1>1 DEF Spells
<1>3. g[0] = << >>
  BY DEF Spells
<1>4. ASSUME NEW i \in 1..(n + 1) PROVE g[i] = g[i - 1] \o p[i]
  <2>1. g[i - 1] = h[i - 1]
    OBVIOUS
  <2>2. CASE i = n + 1
    <3>1. g[i] = next /\ i - 1 = n
      BY <2>2
    <3>. HIDE DEF g
    <3>. QED  BY <2>1, <2>2, <3>1 DEF next
  <2>3. CASE i # n + 1
    <3>1. g[i] = h[i] /\ i \in 1..n
      BY <2>3
    <3>. HIDE DEF g
    <3>. QED  BY <2>1, <3>1 DEF Spells
  <2>. QED  BY <2>2, <2>3
<1>. HIDE DEF g
<1>. QED  BY <1>2, <1>3, <1>4 DEF Spells

\* Every sequence of pieces, of any length, is spelled.
LEMMA PiecesAreSpelled ==
    ASSUME NEW S, NEW p \in Seq(Seq(S))
    PROVE  \E g : Spells(g, S, p, Len(p))
<1>. DEFINE T == {n \in Nat : n <= Len(p) => \E g : Spells(g, S, p, n)}
<1>1. 0 \in T
  <2>. DEFINE g == [i \in 0..0 |-> << >>]
  <2>1. << >> \in Seq(S)
    BY EmptySeq
  <2>2. Spells(g, S, p, 0)
    <3>1. g \in [0..0 -> Seq(S)]
      BY <2>1
    <3>2. g[0] = << >>
      OBVIOUS
    <3>. HIDE DEF g
    <3>. QED  BY <3>1, <3>2 DEF Spells
  <2>. HIDE DEF g
  <2>. QED  BY <2>2
<1>2. ASSUME NEW n \in T PROVE n + 1 \in T
  <2>0. Len(p) \in Nat /\ n \in Nat
    BY LenProperties
  <2>1. CASE n + 1 <= Len(p)
    <3>1. PICK h : Spells(h, S, p, n)
      BY <2>0, <2>1
    <3>. QED  BY <2>0, <2>1, <3>1, SpellingGoesOn
  <2>. QED  BY <2>0, <2>1
<1>3. T \in SUBSET Nat /\ Len(p) \in Nat
  BY LenProperties
<1>4. Len(p) \in T
  <2>. HIDE DEF T
  <2>. QED  BY <1>1, <1>2, <1>3, SetInduction
<1>. QED  BY <1>3, <1>4

\* FlattenSeq of the first k pieces is what they spell.
LEMMA FlattenIsSpelled ==
    ASSUME NEW S, NEW p \in Seq(Seq(S)), NEW g, Spells(g, S, p, Len(p)), NEW k \in 0..Len(p)
    PROVE  FlattenSeq(SubSeq(p, 1, k)) = g[k]
<1>. DEFINE s == SubSeq(p, 1, k)
<1>1. /\ Len(p) \in Nat /\ k \in Nat
      /\ Len(s) = k
      /\ \A i \in 1..k : s[i] = p[i]
  <2>1. Len(p) \in Nat
    BY LenProperties
  <2>2. \A i \in 1..k : p[i] \in Seq(S)
    BY <2>1, ElementOfSeq
  <2>3. /\ Len(s) = IF 1 <= k THEN k - 1 + 1 ELSE 0
        /\ \A i \in 1..(k - 1 + 1) : s[i] = p[1 + i - 1]
    BY <2>1, <2>2, SubSeqProperties
  <2>. QED  BY <2>1, <2>3
<1>2. CASE k = 0
  <2>1. s = << >>
    BY <1>1, <1>2, SubSeqEmpty
  <2>. QED  BY <1>1, <1>2, <2>1 DEF FlattenSeq, Spells
<1>3. CASE k # 0
  <2>. HIDE DEF s
  <2>. DEFINE Right(f, i) == IF i = 1 THEN s[i] ELSE f[i - 1] \o s[i]
              Solves(f) == f = [i \in 1..k |-> Right(f, i)]
              f == CHOOSE f : Solves(f)
              w == [i \in 1..k |-> g[i]]
  <2>1. FlattenSeq(s) = f[k]
    BY <1>1, <1>3 DEF FlattenSeq
  <2>2. ASSUME NEW i \in 1..k PROVE g[i] = Right(w, i)
    <3>1. g[i] = g[i - 1] \o s[i] /\ s[i] \in Seq(S)
      <4>1. i \in 1..Len(p)
        BY <1>1
      <4>. QED  BY <1>1, <4>1, ElementOfSeq DEF Spells
    <3>2. CASE i = 1
      <4>1. g[i - 1] = << >>
        BY <3>2 DEF Spells
      <4>. QED  BY <3>1, <3>2, <4>1, ConcatEmptySeq
    <3>3. CASE i # 1
      <4>1. i - 1 \in 1..k
        BY <1>1, <3>3
      <4>2. w[i - 1] = g[i - 1]
        BY <4>1
      <4>. HIDE DEF w
      <4>. QED  BY <3>1, <3>3, <4>2
    <3>. QED  BY <3>2, <3>3
  <2>3. Solves(f)
    <3>1. Solves(w)
      <4>. HIDE DEF Right
      <4>. QED  BY <2>2
    <3>. HIDE DEF Solves, w
    <3>. QED  BY <3>1
  <2>4. ASSUME NEW i \in 1..k PROVE f[i] = Right(f, i) /\ w[i] = Right(w, i) /\ w[i] = g[i]
    <3>. HIDE DEF f, Right
    <3>. QED  BY <2>2, <2>3
  <2>. HIDE DEF f, w, Solves
  <2>. DEFINE T == {i \in Nat : i \in 1..k => f[i] = w[i]}
  <2>5. 0 \in T /\ T \in SUBSET Nat
    OBVIOUS
  <2>6. ASSUME NEW i \in T PROVE i + 1 \in T
    <3>1. CASE i + 1 \in 1..k
      <4>1. f[i + 1] = Right(f, i + 1) /\ w[i + 1] = Right(w, i + 1)
        BY <2>4, <3>1
      <4>2. CASE i = 0
        BY <3>1, <4>1, <4>2
      <4>3. CASE i # 0
        <5>1. PICK j \in 1..k : j = i + 1
          BY <3>1
        <5>2. j # 1 /\ f[j - 1] = w[j - 1]
          BY <3>1, <4>3, <5>1
        <5>3. f[j] = Right(f, j) /\ w[j] = Right(w, j)
          BY <4>1, <5>1
        <5>. HIDE DEF T
        <5>4. f[j] = w[j]
          BY <5>2, <5>3
        <5>. QED  BY <5>1, <5>4 DEF T
      <4>. QED  BY <4>2, <4>3
    <3>. QED  BY <3>1
  <2>7. k \in T
    <3>. HIDE DEF T
    <3>. QED  BY <1>1, <2>5, <2>6, SetInduction
  <2>8. k \in 1..k
    BY <1>1, <1>3
  <2>9. f[k] = g[k]
    BY <2>4, <2>7, <2>8
  <2>. QED  BY <2>1, <2>9 DEF s
<1>. QED  BY <1>2, <1>3

\* What is spelled up to a piece begins what is spelled up to a later one.
LEMMA SpelledExtends ==
    ASSUME NEW S, NEW p \in Seq(Seq(S)), NEW g, Spells(g, S, p, Len(p)),
           NEW k \in 0..Len(p), NEW n \in k..Len(p)
    PROVE  Begins(g[k], g[n])
<1>. DEFINE T == {d \in Nat : k + d <= Len(p) => Begins(g[k], g[k + d])}
<1>1. /\ Len(p) \in Nat
      /\ \A m \in 0..Len(p) : g[m] \in Seq(S) /\ Len(g[m]) \in Nat
  <2>1. \A m \in 0..Len(p) : g[m] \in Seq(S)
    BY DEF Spells
  <2>. QED  BY <2>1, LenProperties
<1>2. 0 \in T /\ T \in SUBSET Nat
  <2>1. k + 0 = k /\ Begins(g[k], g[k])
    BY <1>1 DEF Begins
  <2>. QED  BY <2>1
<1>3. ASSUME NEW d \in T PROVE d + 1 \in T
  <2>1. CASE k + (d + 1) <= Len(p)
    <3>1. PICK m \in 1..Len(p) : m = k + (d + 1)
      BY <1>1, <2>1
    <3>2. m - 1 \in 0..Len(p) /\ m - 1 = k + d /\ Begins(g[k], g[m - 1])
      BY <1>1, <2>1, <3>1
    <3>3. g[m] = g[m - 1] \o p[m]
      BY DEF Spells
    <3>4. p[m] \in Seq(S) /\ g[m - 1] \in Seq(S) /\ g[k] \in Seq(S)
      BY <1>1, <3>2, ElementOfSeq
    <3>6. PICK a, b, c \in Seq(S) : a = g[k] /\ b = g[m - 1] /\ c = p[m]
      BY <3>4
    <3>7. /\ Len(b \o c) = Len(b) + Len(c)
          /\ \A i \in 1..(Len(b) + Len(c)) : i <= Len(b) => (b \o c)[i] = b[i]
      BY ConcatProperties
    <3>8. Begins(a, b) /\ g[m] = b \o c
      BY <3>2, <3>3, <3>6
    <3>9. Len(a) \in Nat /\ Len(b) \in Nat /\ Len(c) \in Nat
      BY LenProperties
    <3>10. Begins(a, b \o c)
      <4>1. Len(a) <= Len(b \o c)
        BY <3>7, <3>8, <3>9 DEF Begins
      <4>2. ASSUME NEW i \in 1..Len(a) PROVE (b \o c)[i] = a[i]
        <5>1. i <= Len(b) /\ i \in 1..(Len(b) + Len(c)) /\ b[i] = a[i]
          BY <3>8, <3>9 DEF Begins
        <5>. QED  BY <3>7, <5>1
      <4>. QED  BY <4>1, <4>2 DEF Begins
    <3>11. Begins(g[k], g[m])
      BY <3>6, <3>8, <3>10
    <3>. QED  BY <3>1, <3>11
  <2>. QED  BY <2>1
<1>4. n - k \in Nat /\ k + (n - k) = n
  BY <1>1
<1>5. n - k \in T
  <2>. HIDE DEF T
  <2>. QED  BY <1>2, <1>3, <1>4, SetInduction
<1>. QED  BY <1>4, <1>5, <1>1

\* The offset behind the k-th piece.
Start(k) == Len(FlattenSeq(SubSeq(pieces, 1, k))) + 2

\* Where the pieces lie in the payload: one behind the other, and cut off at the end.
LayoutOK ==
    /\ pieces \in Seq(Pieces) /\ payload \in Seq(Nat)
    /\ Start(0) = 2
    /\ Len(payload) <= Start(Len(pieces))
    /\ \A k \in 0..Len(pieces) : Start(k) \in Nat
    /\ \A k \in 0..Len(pieces) : \A n \in k..Len(pieces) : Start(k) <= Start(n)
    /\ \A k \in 1..Len(pieces) :
          /\ Start(k) = Start(k - 1) + Len(pieces[k])
          /\ \A i \in 1..Len(pieces[k]) :
                Start(k - 1) + i <= Len(payload) => payload[Start(k - 1) + i] = pieces[k][i]

\* The segment that contains a frame.
Containing == <<255, HuffmanTable, 0, 12>> \o Frame(Baseline, 2, 2)

\* Its length and its first bytes.
LEMMA ContainingBytes ==
    /\ Containing \in Seq(Nat) /\ Len(Containing) = 14
    /\ Containing[1] = 255 /\ Containing[2] = 196 /\ Containing[3] = 0 /\ Containing[4] = 12
<1>1. PICK a \in Seq(Nat) : /\ a = <<255, 196, 0, 12>> /\ Len(a) = 4
                            /\ a[1] = 255 /\ a[2] = 196 /\ a[3] = 0 /\ a[4] = 12
  <2>1. <<255, 196, 0, 12>> \in Seq(Nat)
    OBVIOUS
  <2>. QED  BY <2>1
<1>2. PICK b \in Seq(Nat) : b = Frame(Baseline, 2, 2) /\ Len(b) = 10
  <2>1. Frame(Baseline, 2, 2) \in Seq(Nat) /\ Len(Frame(Baseline, 2, 2)) = 10
    BY DEF Frame, Baseline
  <2>. QED  BY <2>1
<1>3. Containing = a \o b
  BY <1>1, <1>2 DEF Containing, HuffmanTable
<1>4. /\ a \o b \in Seq(Nat) /\ Len(a \o b) = Len(a) + Len(b)
      /\ \A i \in 1..(Len(a) + Len(b)) : (a \o b)[i] = IF i <= Len(a) THEN a[i] ELSE b[i - Len(a)]
  BY ConcatProperties
<1>5. ASSUME NEW i \in 1..4 PROVE (a \o b)[i] = a[i]
  <2>1. i <= Len(a) /\ i \in 1..(Len(a) + Len(b))
    BY <1>1, <1>2
  <2>. QED  BY <1>4, <2>1
<1>6. 1 \in 1..4 /\ 2 \in 1..4 /\ 3 \in 1..4 /\ 4 \in 1..4
  OBVIOUS
<1>7. Containing \in Seq(Nat) /\ Len(Containing) = 14
  <2>1. Len(a) = 4 /\ Len(b) = 10
    BY <1>1, <1>2
  <2>2. Len(a \o b) = 14
    BY <1>4, <2>1
  <2>. QED  BY <1>3, <1>4, <2>2
<1>8. (a \o b)[1] = a[1] /\ (a \o b)[2] = a[2] /\ (a \o b)[3] = a[3] /\ (a \o b)[4] = a[4]
  BY <1>5, <1>6
<1>9. a[1] = 255 /\ a[2] = 196 /\ a[3] = 0 /\ a[4] = 12
  BY <1>1
<1>. HIDE <1>1
<1>. QED  BY <1>3, <1>7, <1>8, <1>9

\* A piece is one of seven.
LEMMA PieceIsOneOf ==
    ASSUME NEW q \in Pieces
    PROVE  \/ q = <<0>> \/ q = <<255, 255, 208>> \/ q = Containing
           \/ q = <<255, 192, 0, 5, 8, 0, 1>> \/ q = <<255, 225, 0, 1>>
           \/ q \in Frames /\ \E f \in {192, 194}, h, w \in Nat : q = <<255, f, 0, 8, 8, 0, h, 0, w, 1>>
<1>1. CASE q \in Frames
  <2>1. PICK f \in {192, 194}, h, w \in Nat : q = Frame(f, h, w)
    BY <1>1 DEF Frames, Baseline, Progressive
  <2>2. q = <<255, f, 0, 8, 8, 0, h, 0, w, 1>>
    BY <2>1 DEF Frame
  <2>. QED  BY <1>1, <2>2
<1>2. CASE q \notin Frames
  BY <1>2 DEF Pieces, Standalone, Baseline, Application, Containing
<1>. QED  BY <1>1, <1>2

\* The pieces are sequences of bytes.
LEMMA PiecesAreBytes == Pieces \subseteq Seq(Nat)
<1>. SUFFICES ASSUME NEW q \in Pieces PROVE q \in Seq(Nat)
  OBVIOUS
<1>1. \A f, h, w \in Nat : <<255, f, 0, 8, 8, 0, h, 0, w, 1>> \in Seq(Nat)
  OBVIOUS
<1>2. <<0>> \in Seq(Nat) /\ <<255, 255, 208>> \in Seq(Nat)
  OBVIOUS
<1>3. <<255, 192, 0, 5, 8, 0, 1>> \in Seq(Nat) /\ <<255, 225, 0, 1>> \in Seq(Nat)
  OBVIOUS
<1>4. Containing \in Seq(Nat)
  BY ContainingBytes
<1>5. CASE q = <<0>> \/ q = <<255, 255, 208>>
  BY <1>2, <1>5
<1>7. CASE q = <<255, 192, 0, 5, 8, 0, 1>> \/ q = <<255, 225, 0, 1>>
  BY <1>3, <1>7
<1>6. CASE \E f \in {192, 194}, h, w \in Nat : q = <<255, f, 0, 8, 8, 0, h, 0, w, 1>>
  BY <1>1, <1>6
<1>. QED  BY <1>4, <1>5, <1>6, <1>7, PieceIsOneOf

\* A piece of n bytes that is a segment: its marker and the length it states.
IsSegment(q, n, mark, short) ==
    Len(q) = n /\ q[1] = 255 /\ q[2] = mark /\ q[3] = 0 /\ q[4] = short
IsFrame(q) == /\ q \in Frames /\ \E f \in {192, 194} : IsSegment(q, 10, f, 8)
              /\ q[6] = 0 /\ q[7] \in Nat /\ q[8] = 0 /\ q[9] \in Nat
IsStray(q) == Len(q) = 1 /\ q[1] = 0
IsFilled(q) == Len(q) = 3 /\ q[1] = 255 /\ q[2] = 255 /\ q[3] = 208

\* What the walk can meet.
LEMMA PieceKinds ==
    ASSUME NEW q \in Pieces
    PROVE  \/ IsStray(q) \/ IsFilled(q) \/ IsFrame(q)
           \/ IsSegment(q, 14, 196, 12) \/ IsSegment(q, 7, 192, 5) \/ IsSegment(q, 4, 225, 1)
<1>1. CASE q = <<0>>
  BY <1>1 DEF IsStray
<1>2. CASE q = <<255, 255, 208>>
  BY <1>2 DEF IsFilled
<1>3. CASE q = Containing
  BY <1>3, ContainingBytes DEF IsSegment
<1>4. CASE q = <<255, 192, 0, 5, 8, 0, 1>>
  BY <1>4 DEF IsSegment
<1>5. CASE q = <<255, 225, 0, 1>>
  BY <1>5 DEF IsSegment
<1>6. CASE q \in Frames /\ \E f \in {192, 194}, h, w \in Nat : q = <<255, f, 0, 8, 8, 0, h, 0, w, 1>>
  BY <1>6 DEF IsFrame, IsSegment
<1>. QED  BY <1>1, <1>2, <1>3, <1>4, <1>5, <1>6, PieceIsOneOf

\* What lies behind a is b wherever a sequence begins with both.
LEMMA BytesBehind ==
    ASSUME NEW a \in Seq(Nat), NEW b \in Seq(Nat), NEW c \in Seq(Nat), Begins(a \o b, c),
           NEW i \in 1..Len(b)
    PROVE  Len(a) + i \in 1..Len(c) /\ c[Len(a) + i] = b[i]
<1>1. Len(a) \in Nat /\ Len(b) \in Nat /\ Len(c) \in Nat
  BY LenProperties
<1>2. /\ Len(a \o b) = Len(a) + Len(b)
      /\ \A j \in 1..(Len(a) + Len(b)) : (a \o b)[j] = IF j <= Len(a) THEN a[j] ELSE b[j - Len(a)]
  BY ConcatProperties
<1>3. PICK j \in 1..(Len(a) + Len(b)) : j = Len(a) + i
  <2>1. Len(a) + i \in 1..(Len(a) + Len(b))
    BY <1>1
  <2>. QED  BY <2>1
<1>4. (a \o b)[j] = b[i]
  <2>1. ~(j <= Len(a)) /\ j - Len(a) = i
    BY <1>1, <1>3
  <2>. QED  BY <1>2, <2>1
<1>5. j \in 1..Len(a \o b) /\ Len(a \o b) <= Len(c) /\ Len(a \o b) \in Nat
  BY <1>1, <1>2 DEF Begins
<1>6. c[j] = (a \o b)[j]
  BY <1>5 DEF Begins
<1>7. j \in 1..Len(c)
  BY <1>1, <1>5
<1>. QED  BY <1>3, <1>4, <1>6, <1>7

\* Bytes behind a head of two.
LEMMA BytesBehindHead ==
    ASSUME NEW c \in Seq(Nat)
    PROVE  /\ <<255, 216>> \o c \in Seq(Nat) /\ Len(<<255, 216>> \o c) = 2 + Len(c)
           /\ \A i \in 1..Len(c) : (<<255, 216>> \o c)[2 + i] = c[i]
<1>1. PICK a \in Seq(Nat) : a = <<255, 216>> /\ Len(a) = 2
  <2>1. <<255, 216>> \in Seq(Nat) /\ Len(<<255, 216>>) = 2
    OBVIOUS
  <2>. QED  BY <2>1, Zenon
<1>2. Len(c) \in Nat
  BY LenProperties
<1>3. /\ a \o c \in Seq(Nat) /\ Len(a \o c) = Len(a) + Len(c)
      /\ \A i \in 1..(Len(a) + Len(c)) : (a \o c)[i] = IF i <= Len(a) THEN a[i] ELSE c[i - Len(a)]
  BY ConcatProperties
<1>4. a \o c \in Seq(Nat) /\ Len(a \o c) = 2 + Len(c)
  BY <1>1, <1>3
<1>5. ASSUME NEW i \in 1..Len(c) PROVE (a \o c)[2 + i] = c[i]
  <2>1. PICK j : j = 2 + i
    OBVIOUS
  <2>2. j \in 1..(Len(a) + Len(c)) /\ ~(j <= Len(a)) /\ j - Len(a) = i
    <3>1. Len(a) = 2
      BY <1>1
    <3>. QED  BY <1>2, <2>1, <3>1
  <2>3. (a \o c)[j] = c[i]
    BY <1>3, <2>2
  <2>. QED  BY <2>1, <2>3
<1>. QED  BY <1>1, <1>4, <1>5

\* A sequence cut off at its end holds what it held before.
LEMMA BytesOfCut ==
    ASSUME NEW c \in Seq(Nat), NEW cut \in Nat, cut + 2 <= Len(c)
    PROVE  /\ SubSeq(c, 1, Len(c) - cut) \in Seq(Nat)
           /\ Len(SubSeq(c, 1, Len(c) - cut)) = Len(c) - cut
           /\ \A i \in 1..(Len(c) - cut) : SubSeq(c, 1, Len(c) - cut)[i] = c[i]
<1>1. Len(c) \in Nat
  BY LenProperties
<1>2. PICK last \in Int : last = Len(c) - cut /\ 1 <= last /\ last <= Len(c)
  <2>1. Len(c) - cut \in Int /\ 1 <= Len(c) - cut /\ Len(c) - cut <= Len(c)
    BY <1>1
  <2>. QED  BY <2>1
<1>3. \A i \in 1..last : c[i] \in Nat
  <2>1. \A i \in 1..last : i \in 1..Len(c)
    BY <1>1, <1>2
  <2>. QED  BY <2>1, ElementOfSeq
<1>4. /\ SubSeq(c, 1, last) \in Seq(Nat)
      /\ Len(SubSeq(c, 1, last)) = IF 1 <= last THEN last - 1 + 1 ELSE 0
      /\ \A i \in 1..(last - 1 + 1) : SubSeq(c, 1, last)[i] = c[1 + i - 1]
  BY <1>3, SubSeqProperties
<1>5. last - 1 + 1 = last /\ 1 <= last /\ \A i \in 1..last : 1 + i - 1 = i
  BY <1>2
<1>6. /\ SubSeq(c, 1, last) \in Seq(Nat) /\ Len(SubSeq(c, 1, last)) = last
      /\ \A i \in 1..last : SubSeq(c, 1, last)[i] = c[i]
  BY <1>4, <1>5
<1>. QED  BY <1>2, <1>6

\* The two bytes a payload starts with, then c, and cut off at its end.
IsCut(bytes, c, cut) ==
    /\ cut + 2 <= Len(<<255, 216>> \o c)
    /\ bytes = SubSeq(<<255, 216>> \o c, 1, Len(<<255, 216>> \o c) - cut)

\* A payload holds, behind its first two bytes, the bytes of its pieces as far as it goes.
LEMMA PayloadReads ==
    ASSUME NEW c \in Seq(Nat), NEW cut \in Nat, NEW bytes, IsCut(bytes, c, cut)
    PROVE  /\ bytes \in Seq(Nat) /\ Len(bytes) \in Nat /\ Len(bytes) <= Len(c) + 2
           /\ \A i \in 1..Len(c) : 2 + i <= Len(bytes) => bytes[2 + i] = c[i]
<1>1. PICK whole \in Seq(Nat) : whole = <<255, 216>> \o c
  BY BytesBehindHead
<1>2. Len(whole) = 2 + Len(c) /\ \A i \in 1..Len(c) : whole[2 + i] = c[i]
  BY <1>1, BytesBehindHead
<1>3. cut + 2 <= Len(whole) /\ bytes = SubSeq(whole, 1, Len(whole) - cut)
  BY <1>1 DEF IsCut
<1>. HIDE <1>1
<1>4. /\ bytes \in Seq(Nat) /\ Len(bytes) = Len(whole) - cut
      /\ \A i \in 1..(Len(whole) - cut) : bytes[i] = whole[i]
  <2>1. /\ SubSeq(whole, 1, Len(whole) - cut) \in Seq(Nat)
        /\ Len(SubSeq(whole, 1, Len(whole) - cut)) = Len(whole) - cut
        /\ \A i \in 1..(Len(whole) - cut) : SubSeq(whole, 1, Len(whole) - cut)[i] = whole[i]
    BY <1>3, BytesOfCut, Zenon
  <2>. QED  BY <1>3, <2>1, Zenon
<1>5. Len(bytes) \in Nat /\ Len(c) \in Nat
  BY <1>4, LenProperties
<1>6. Len(bytes) <= Len(c) + 2
  BY <1>2, <1>4, <1>5
<1>7. ASSUME NEW i \in 1..Len(c), 2 + i <= Len(bytes) PROVE bytes[2 + i] = c[i]
  <2>1. 2 + i \in 1..Len(bytes)
    BY <1>5, <1>7
  <2>2. bytes[2 + i] = whole[2 + i]
    BY <1>4, <2>1
  <2>. QED  BY <1>2, <2>2
<1>. QED  BY <1>4, <1>5, <1>6, <1>7

\* Every payload is laid out so.
LEMMA PayloadIsLaidOut == InspectionInit => LayoutOK
<1>. SUFFICES ASSUME InspectionInit PROVE LayoutOK
  OBVIOUS
<1>1. pieces \in Seq(Pieces)
  <2>1. PICK n \in 0..MaxPieces : pieces \in [1..n -> Pieces]
    BY DEF InspectionInit
  <2>2. n \in Nat
    BY <2>1
  <2>. QED  BY <2>1, <2>2, SeqDef
<1>2. PICK N \in Nat : N = Len(pieces)
  BY <1>1, LenProperties
<1>3. pieces \in Seq(Seq(Nat))
  BY <1>1, PiecesAreBytes, SeqMonotonic
<1>4. PICK g : Spells(g, Nat, pieces, N)
  BY <1>2, <1>3, PiecesAreSpelled
<1>5. \A k \in 0..N : g[k] \in Seq(Nat) /\ Len(g[k]) \in Nat
  <2>1. \A k \in 0..N : g[k] \in Seq(Nat)
    BY <1>4 DEF Spells
  <2>. QED  BY <2>1, LenProperties
<1>6. ASSUME NEW k \in 0..N PROVE FlattenSeq(SubSeq(pieces, 1, k)) = g[k]
  BY <1>2, <1>3, <1>4, FlattenIsSpelled
<1>7. \A k \in 0..N : Start(k) = Len(g[k]) + 2
  BY <1>6 DEF Start
<1>8. PICK c \in Seq(Nat) : c = g[N] /\ FlattenSeq(pieces) = c /\ Len(c) \in Nat
  <2>1. SubSeq(pieces, 1, N) = pieces
    BY <1>1, <1>2, SubSeqFull
  <2>2. N \in 0..N
    OBVIOUS
  <2>. QED  BY <1>5, <1>6, <2>1, <2>2
<1>9. /\ payload \in Seq(Nat) /\ Len(payload) \in Nat /\ Len(payload) <= Len(c) + 2
      /\ \A i \in 1..Len(c) : 2 + i <= Len(payload) => payload[2 + i] = c[i]
  <2>1. PICK cut \in 0..MaxCut : IsCut(payload, c, cut)
    <3>1. \E cut \in 0..MaxCut : IsCut(payload, FlattenSeq(pieces), cut)
      BY DEF InspectionInit, IsCut
    <3>. QED  BY <1>8, <3>1
  <2>2. cut \in Nat
    BY <2>1
  <2>3. /\ payload \in Seq(Nat) /\ Len(payload) \in Nat /\ Len(payload) <= Len(c) + 2
        /\ \A i \in 1..Len(c) : 2 + i <= Len(payload) => payload[2 + i] = c[i]
    BY <2>1, <2>2, PayloadReads, Zenon
  <2>. QED  BY <2>3
<1>10. Start(0) = 2
  <2>1. g[0] = << >> /\ 0 \in 0..N
    BY <1>4 DEF Spells
  <2>. QED  BY <1>7, <2>1
<1>11. Len(payload) <= Start(N)
  <2>1. N \in 0..N
    OBVIOUS
  <2>. QED  BY <1>7, <1>8, <1>9, <2>1
<1>12. \A k \in 0..N : \A n \in k..N : Begins(g[k], g[n])
  BY <1>2, <1>3, <1>4, SpelledExtends
<1>13. ASSUME NEW k \in 0..N, NEW n \in k..N PROVE Start(k) <= Start(n)
  <2>1. n \in 0..N
    OBVIOUS
  <2>2. Len(g[k]) <= Len(g[n])
    BY <1>12 DEF Begins
  <2>. QED  BY <1>5, <1>7, <2>1, <2>2
<1>14. ASSUME NEW k \in 1..N
       PROVE  /\ Start(k) = Start(k - 1) + Len(pieces[k])
              /\ \A i \in 1..Len(pieces[k]) :
                    Start(k - 1) + i <= Len(payload) => payload[Start(k - 1) + i] = pieces[k][i]
  <2>1. k - 1 \in 0..N /\ k \in 0..N /\ N \in k..N
    OBVIOUS
  <2>2. PICK a, b \in Seq(Nat) : a = g[k - 1] /\ b = pieces[k]
    <3>1. pieces[k] \in Seq(Nat)
      BY <1>2, <1>3, ElementOfSeq
    <3>. QED  BY <1>5, <2>1, <3>1
  <2>3. g[k] = a \o b
    BY <1>4, <2>2 DEF Spells
  <2>4. Len(a \o b) = Len(a) + Len(b) /\ Len(a) \in Nat /\ Len(b) \in Nat
    BY ConcatProperties, LenProperties
  <2>5. Start(k) = Len(a) + Len(b) + 2 /\ Start(k - 1) = Len(a) + 2
    BY <1>7, <2>1, <2>2, <2>3, <2>4
  <2>6. Begins(a \o b, c)
    BY <1>8, <1>12, <2>1, <2>3
  <2>7. ASSUME NEW i \in 1..Len(b), Start(k - 1) + i <= Len(payload)
        PROVE  payload[Start(k - 1) + i] = b[i]
    <3>1. PICK j \in 1..Len(c) : j = Len(a) + i /\ c[j] = b[i]
      BY <2>6, BytesBehind
    <3>2. Start(k - 1) + i = 2 + j
      BY <2>4, <2>5, <3>1
    <3>. QED  BY <1>9, <2>7, <3>1, <3>2
  <2>8. Start(k) = Start(k - 1) + Len(b)
    BY <2>4, <2>5
  <2>. QED  BY <2>2, <2>7, <2>8
<1>15. ASSUME NEW k \in 0..N PROVE Start(k) \in Nat
  BY <1>5, <1>7
<1>. QED  BY <1>1, <1>2, <1>9, <1>10, <1>11, <1>13, <1>14, <1>15 DEF LayoutOK

\* The bytes of the k-th piece, as far as they arrived.
LEMMA BytesAhead ==
    ASSUME LayoutOK, NEW k \in 1..Len(pieces), NEW i \in 1..Len(pieces[k]),
           Start(k - 1) + i <= Len(payload)
    PROVE  Byte(Start(k - 1) + (i - 1)) = pieces[k][i]
<1>1. Start(k - 1) \in Nat /\ i \in Nat
  <2>1. Len(pieces) \in Nat /\ pieces[k] \in Seq(Nat)
    BY LenProperties, ElementOfSeq, PiecesAreBytes DEF LayoutOK
  <2>2. k - 1 \in 0..Len(pieces) /\ Len(pieces[k]) \in Nat
    BY <2>1, LenProperties
  <2>. QED  BY <2>2 DEF LayoutOK
<1>2. Start(k - 1) + (i - 1) + 1 = Start(k - 1) + i
  BY <1>1
<1>3. payload[Start(k - 1) + i] = pieces[k][i]
  BY DEF LayoutOK
<1>. QED  BY <1>2, <1>3 DEF Byte

\* A marker without a fill byte.
LEMMA MarkerIsNext ==
    ASSUME position \in Nat, Len(payload) \in Nat, position + 4 <= Len(payload),
           Byte(position) = 255, Byte(position + 1) # 255
    PROVE  marker = position + 1
<1>1. position \in Fill
  BY DEF Fill
<1>2. ASSUME NEW i \in Fill PROVE i = position
  <2>1. i \in position..(Len(payload) - 1) /\ \A j \in position..i : Byte(j) = 255
    BY DEF Fill
  <2>2. ~(position + 1 \in position..i)
    BY <2>1
  <2>. QED  BY <2>1, <2>2
<1>3. Fill = {position}
  BY <1>1, <1>2
<1>. QED  BY <1>3, FS_Singleton DEF marker

\* A marker behind a fill byte.
LEMMA MarkerIsBehindFill ==
    ASSUME position \in Nat, Len(payload) \in Nat, position + 4 <= Len(payload),
           Byte(position) = 255, Byte(position + 1) = 255, Byte(position + 2) # 255
    PROVE  marker = position + 2
<1>1. position \in Fill
  BY DEF Fill
<1>2. position + 1 \in Fill
  <2>1. \A j \in position..(position + 1) : j = position \/ j = position + 1
    OBVIOUS
  <2>. QED  BY <2>1 DEF Fill
<1>3. ASSUME NEW i \in Fill PROVE i = position \/ i = position + 1
  <2>1. i \in position..(Len(payload) - 1) /\ \A j \in position..i : Byte(j) = 255
    BY DEF Fill
  <2>2. ~(position + 2 \in position..i)
    BY <2>1
  <2>. QED  BY <2>1, <2>2
<1>4. PICK x, y : x = position /\ y = position + 1
  OBVIOUS
<1>5. x # y /\ x \in Fill /\ y \in Fill /\ \A i \in Fill : i = x \/ i = y
  BY <1>1, <1>2, <1>3, <1>4
<1>6. Cardinality(Fill) = 2
  <2>. HIDE <1>4
  <2>1. PICK one : one = {x}
    OBVIOUS
  <2>2. y \notin one /\ IsFiniteSet(one) /\ Cardinality(one) = 1
    BY <1>5, <2>1, FS_Singleton
  <2>3. \A i : i \in Fill <=> i \in one \cup {y}
    BY <1>5, <2>1
  <2>4. Fill = one \cup {y}
    BY <2>3
  <2>5. Cardinality(one \cup {y}) = 2
    <3>1. Cardinality(one \cup {y}) = IF y \in one THEN Cardinality(one) ELSE Cardinality(one) + 1
      BY <2>2, FS_AddElement
    <3>. QED  BY <2>2, <3>1
  <2>. QED  BY <2>4, <2>5
<1>. QED  BY <1>6 DEF marker

\* The walk is at the k-th piece.
AtPiece(k) == Walking /\ k \in 1..Len(pieces) /\ position = Start(k - 1)

\* The piece ahead is typed, and its first bytes are there.
LEMMA PieceAhead ==
    ASSUME LayoutOK, NEW k, AtPiece(k)
    PROVE  /\ pieces[k] \in Pieces /\ Len(pieces[k]) \in Nat
           /\ position \in Nat /\ Len(payload) \in Nat /\ position + 4 <= Len(payload)
           /\ Start(k) = position + Len(pieces[k])
           /\ \A i \in 1..Len(pieces[k]) :
                 position + i <= Len(payload) => Byte(position + (i - 1)) = pieces[k][i]
<1>1. Len(pieces) \in Nat /\ pieces[k] \in Pieces /\ Len(payload) \in Nat
  BY LenProperties, ElementOfSeq DEF LayoutOK, AtPiece
<1>2. Len(pieces[k]) \in Nat
  BY <1>1, PiecesAreBytes, LenProperties
<1>3. position \in Nat /\ position + 4 <= Len(payload)
  <2>1. k - 1 \in 0..Len(pieces)
    BY <1>1 DEF AtPiece
  <2>. QED  BY <2>1 DEF AtPiece, Walking, LayoutOK
<1>4. Start(k) = position + Len(pieces[k])
  BY DEF AtPiece, LayoutOK
<1>5. \A i \in 1..Len(pieces[k]) :
         position + i <= Len(payload) => Byte(position + (i - 1)) = pieces[k][i]
  BY BytesAhead DEF AtPiece
<1>. QED  BY <1>1, <1>2, <1>3, <1>4, <1>5

\* What the walk finds at a stray byte.
LEMMA AtStrayByte ==
    ASSUME LayoutOK, NEW k, AtPiece(k), IsStray(pieces[k])
    PROVE  /\ Byte(position) # 255
           /\ Len(pieces[k]) = 1 /\ Start(k) = position + 1 /\ Start(k) <= Len(payload)
<1>2. Len(pieces[k]) = 1 /\ pieces[k][1] = 0
  BY DEF IsStray
<1>3. /\ position \in Nat /\ Len(payload) \in Nat /\ position + 4 <= Len(payload)
      /\ Start(k) = position + Len(pieces[k])
      /\ \A i \in 1..Len(pieces[k]) :
            position + i <= Len(payload) => Byte(position + (i - 1)) = pieces[k][i]
  BY PieceAhead
<1>4. position + 1 <= Len(payload) /\ position + (1 - 1) = position /\ 1 \in 1..Len(pieces[k])
  BY <1>2, <1>3
<1>5. Byte(position) = 0
  BY <1>2, <1>3, <1>4
<1>6. Start(k) = position + 1
  BY <1>2, <1>3
<1>. QED  BY <1>2, <1>4, <1>5, <1>6

\* What it finds at a marker behind a fill byte.
LEMMA AtFillByte ==
    ASSUME LayoutOK, NEW k, AtPiece(k), IsFilled(pieces[k])
    PROVE  /\ AtMarker /\ Byte(position) = 255 /\ Byte(marker) = 208
           /\ segment = Start(k)
           /\ Len(pieces[k]) = 3 /\ Start(k) = position + 3 /\ Start(k) <= Len(payload)
<1>2. Len(pieces[k]) = 3 /\ pieces[k][1] = 255 /\ pieces[k][2] = 255 /\ pieces[k][3] = 208
  BY DEF IsFilled
<1>3. /\ position \in Nat /\ Len(payload) \in Nat /\ position + 4 <= Len(payload)
      /\ Start(k) = position + Len(pieces[k])
      /\ \A i \in 1..Len(pieces[k]) :
            position + i <= Len(payload) => Byte(position + (i - 1)) = pieces[k][i]
  BY PieceAhead
<1>4. Start(k) = position + 3 /\ Start(k) <= Len(payload)
  BY <1>2, <1>3
<1>5. Byte(position) = 255 /\ Byte(position + 1) = 255 /\ Byte(position + 2) = 208
  <2>1. \A i \in 1..3 : i \in 1..Len(pieces[k]) /\ position + i <= Len(payload)
    BY <1>2, <1>3
  <2>2. \A i \in 1..3 : Byte(position + (i - 1)) = pieces[k][i]
    BY <1>3, <2>1
  <2>3. /\ Byte(position + (1 - 1)) = pieces[k][1] /\ Byte(position + (2 - 1)) = pieces[k][2]
        /\ Byte(position + (3 - 1)) = pieces[k][3]
    BY <2>2
  <2>4. position + (1 - 1) = position /\ 2 - 1 = 1 /\ 3 - 1 = 2
    BY <1>3
  <2>. QED  BY <1>2, <2>3, <2>4
<1>6. marker = position + 2
  BY <1>3, <1>5, MarkerIsBehindFill
<1>7. AtMarker
  BY <1>3, <1>5, <1>6 DEF AtMarker, AtPiece
<1>8. segment = position + 3
  BY <1>3, <1>6 DEF segment
<1>. QED  BY <1>2, <1>4, <1>5, <1>6, <1>7, <1>8

\* The first four bytes of the piece ahead.
LEMMA FirstBytes ==
    ASSUME LayoutOK, NEW k, AtPiece(k), 4 <= Len(pieces[k])
    PROVE  /\ position \in Nat /\ Len(payload) \in Nat /\ position + 4 <= Len(payload)
           /\ Start(k) = position + Len(pieces[k])
           /\ Byte(position) = pieces[k][1] /\ Byte(position + 1) = pieces[k][2]
           /\ Byte(position + 2) = pieces[k][3] /\ Byte(position + 3) = pieces[k][4]
<1>1. /\ Len(pieces[k]) \in Nat
      /\ position \in Nat /\ Len(payload) \in Nat /\ position + 4 <= Len(payload)
      /\ Start(k) = position + Len(pieces[k])
      /\ \A i \in 1..Len(pieces[k]) :
            position + i <= Len(payload) => Byte(position + (i - 1)) = pieces[k][i]
  BY PieceAhead
<1>2. ASSUME NEW i \in 1..4 PROVE Byte(position + (i - 1)) = pieces[k][i]
  <2>1. i \in 1..Len(pieces[k]) /\ position + i <= Len(payload)
    BY <1>1
  <2>. QED  BY <1>1, <2>1
<1>3. /\ Byte(position + (1 - 1)) = pieces[k][1] /\ Byte(position + (2 - 1)) = pieces[k][2]
      /\ Byte(position + (3 - 1)) = pieces[k][3] /\ Byte(position + (4 - 1)) = pieces[k][4]
  BY <1>2
<1>4. position + (1 - 1) = position /\ 2 - 1 = 1 /\ 3 - 1 = 2 /\ 4 - 1 = 3
  BY <1>1
<1>. QED  BY <1>1, <1>3, <1>4

\* What it finds at a segment, be it a frame or not.
LEMMA AtSegment ==
    ASSUME LayoutOK, NEW k, AtPiece(k), NEW n \in Nat, n >= 4,
           NEW mark \in {192, 194, 196, 225}, NEW short \in Nat, IsSegment(pieces[k], n, mark, short)
    PROVE  /\ AtMarker /\ HasSegment /\ Byte(position) = 255 /\ Byte(marker) = mark
           /\ segment = position + 2 /\ Short(segment) = short
           /\ Start(k) = position + n
<1>0. /\ mark # 255 /\ mark \notin {1} \cup 208..217
      /\ Len(pieces[k]) = n
      /\ pieces[k][1] = 255 /\ pieces[k][2] = mark /\ pieces[k][3] = 0 /\ pieces[k][4] = short
  BY DEF IsSegment
<1>a. 4 <= Len(pieces[k])
  BY <1>0
<1>1. /\ position \in Nat /\ Len(payload) \in Nat /\ position + 4 <= Len(payload)
      /\ Start(k) = position + Len(pieces[k])
  BY <1>a, FirstBytes, Zenon
<1>2. /\ Byte(position) = 255 /\ Byte(position + 1) = mark
      /\ Byte(position + 2) = 0 /\ Byte(position + 3) = short
  <2>1. /\ Byte(position) = pieces[k][1] /\ Byte(position + 1) = pieces[k][2]
        /\ Byte(position + 2) = pieces[k][3] /\ Byte(position + 3) = pieces[k][4]
    BY <1>a, FirstBytes, Zenon
  <2>. QED  BY <1>0, <2>1
<1>3. marker = position + 1
  BY <1>0, <1>1, <1>2, MarkerIsNext
<1>4. AtMarker
  BY <1>1, <1>2, <1>3 DEF AtMarker, AtPiece
<1>5. segment = position + 2
  BY <1>1, <1>3 DEF segment
<1>6. HasSegment
  <2>1. segment + 2 <= Len(payload)
    BY <1>1, <1>5
  <2>2. Byte(marker) = mark
    BY <1>2, <1>3
  <2>. QED  BY <1>0, <1>4, <2>1, <2>2 DEF HasSegment
<1>7. Short(segment) = short
  <2>1. position + 2 + 1 = position + 3 /\ 256 * 0 + short = short
    BY <1>1
  <2>. QED  BY <1>2, <1>5, <2>1 DEF Short
<1>. QED  BY <1>0, <1>1, <1>2, <1>3, <1>4, <1>5, <1>6, <1>7

\* What a step of the walk makes of the piece it is at.
Passes(k) == /\ position' = Start(k) /\ Start(k) <= Len(payload)
             /\ Len(pieces[k]) \notin {4, 7, 10}
             /\ UNCHANGED <<pieces, payload, size>>
Reads(k) == /\ pieces[k] \in Frames /\ Len(pieces[k]) = 10 /\ Start(k) <= Len(payload)
            /\ size' = <<pieces[k][7], pieces[k][9]>>
            /\ UNCHANGED <<pieces, payload, position>>
Refuses == size' = <<"invalid">> /\ UNCHANGED <<pieces, payload, position>>
MayRefuse(k) == Len(pieces[k]) \in {4, 7} \/ ~(Start(k) <= Len(payload))

\* A stray byte is passed.
LEMMA StrayByteIsPassed ==
    ASSUME LayoutOK, NEW k, AtPiece(k), IsStray(pieces[k]), InspectionNext
    PROVE  Passes(k)
<1>1. /\ Byte(position) # 255 /\ Len(pieces[k]) = 1
      /\ Start(k) = position + 1 /\ Start(k) <= Len(payload)
  BY AtStrayByte
<1>2. ~AtMarker /\ Walking
  BY <1>1 DEF AtMarker, AtPiece
<1>3. SkipByte
  BY <1>1, <1>2 DEF InspectionNext, SkipMarker, SkipSegment, ReadFrame, RefusePayload, AtFrame,
                    ValidSegment, HasSegment
<1>. QED  BY <1>1, <1>3 DEF SkipByte, Advance, Passes

\* A fill byte is passed with the marker behind it.
LEMMA FillByteIsPassed ==
    ASSUME LayoutOK, NEW k, AtPiece(k), IsFilled(pieces[k]), InspectionNext
    PROVE  Passes(k)
<1>1. /\ AtMarker /\ Byte(position) = 255 /\ Byte(marker) = 208
      /\ segment = Start(k)
      /\ Len(pieces[k]) = 3 /\ Start(k) = position + 3 /\ Start(k) <= Len(payload)
  BY AtFillByte
<1>2. ~HasSegment
  BY <1>1 DEF HasSegment
<1>3. SkipMarker
  BY <1>1, <1>2 DEF InspectionNext, SkipByte, SkipSegment, ReadFrame, RefusePayload, AtFrame,
                    ValidSegment, AtMarker
<1>. QED  BY <1>1, <1>3 DEF SkipMarker, Advance, Passes

\* A segment is passed with the frame within it, or was cut off.
LEMMA SegmentIsPassed ==
    ASSUME LayoutOK, NEW k, AtPiece(k), IsSegment(pieces[k], 14, 196, 12), InspectionNext
    PROVE  Passes(k) \/ (Refuses /\ MayRefuse(k))
<1>1. Len(pieces[k]) = 14
  BY DEF IsSegment
<1>2. /\ AtMarker /\ HasSegment /\ Byte(position) = 255 /\ Byte(marker) = 196
      /\ segment = position + 2 /\ Short(segment) = 12
      /\ Start(k) = position + 14
  BY AtSegment
<1>3. /\ position \in Nat /\ Len(payload) \in Nat
      /\ Start(k) = position + 14 /\ segment + Short(segment) = Start(k)
  BY <1>2, PieceAhead
<1>4. ~AtFrame
  BY <1>2 DEF AtFrame, StartOfFrame
<1>5. ValidSegment <=> Start(k) <= Len(payload)
  BY <1>2, <1>3 DEF ValidSegment
<1>6. SkipSegment \/ RefusePayload
  <2>1. 196 \notin {1} \cup 208..217
    OBVIOUS
  <2>2. ~SkipByte /\ ~SkipMarker
    BY <1>2, <2>1 DEF SkipByte, SkipMarker
  <2>3. ~ReadFrame
    BY <1>4 DEF ReadFrame
  <2>. QED  BY <2>2, <2>3 DEF InspectionNext
<1>7. CASE SkipSegment
  <2>1. /\ ValidSegment /\ position' = segment + Short(segment)
        /\ UNCHANGED <<pieces, payload, size>>
    BY <1>7 DEF SkipSegment, Advance
  <2>2. position' = Start(k) /\ Start(k) <= Len(payload)
    BY <1>3, <1>5, <2>1
  <2>3. Len(pieces[k]) \notin {4, 7, 10}
    BY <1>1
  <2>. QED  BY <2>1, <2>2, <2>3 DEF Passes
<1>8. CASE RefusePayload
  <2>1. ~ValidSegment
    BY <1>2, <1>4, <1>8 DEF RefusePayload, AtMarker
  <2>. QED  BY <1>5, <1>8, <2>1 DEF RefusePayload, Report, Refuses, MayRefuse
<1>. QED  BY <1>6, <1>7, <1>8

\* A start of frame that is too short is refused.
LEMMA ShortFrameIsRefused ==
    ASSUME LayoutOK, NEW k, AtPiece(k), IsSegment(pieces[k], 7, 192, 5), InspectionNext
    PROVE  Refuses /\ MayRefuse(k)
<1>1. Len(pieces[k]) = 7
  BY DEF IsSegment
<1>2. /\ AtMarker /\ HasSegment /\ Byte(position) = 255 /\ Byte(marker) = 192
      /\ segment = position + 2 /\ Short(segment) = 5
  BY AtSegment
<1>3. RefusePayload
  <2>1. ValidSegment => AtFrame
    BY <1>2 DEF AtFrame, StartOfFrame
  <2>2. ~(Short(segment) >= 7)
    BY <1>2
  <2>. QED  BY <1>2, <2>1, <2>2
            DEF InspectionNext, SkipByte, SkipMarker, SkipSegment, ReadFrame
<1>. QED  BY <1>1, <1>3 DEF RefusePayload, Report, Refuses, MayRefuse

\* A segment that claims to end in its own length field is refused.
LEMMA ShortSegmentIsRefused ==
    ASSUME LayoutOK, NEW k, AtPiece(k), IsSegment(pieces[k], 4, 225, 1), InspectionNext
    PROVE  Refuses /\ MayRefuse(k)
<1>1. Len(pieces[k]) = 4
  BY DEF IsSegment
<1>2. /\ AtMarker /\ HasSegment /\ Byte(position) = 255 /\ Byte(marker) = 225
      /\ segment = position + 2 /\ Short(segment) = 1
  BY AtSegment
<1>3. RefusePayload
  <2>1. ~ValidSegment /\ ~AtFrame
    BY <1>2 DEF ValidSegment, AtFrame
  <2>. QED  BY <1>2, <2>1
            DEF InspectionNext, SkipByte, SkipMarker, SkipSegment, ReadFrame
<1>. QED  BY <1>1, <1>3 DEF RefusePayload, Report, Refuses, MayRefuse

\* A frame is read, or was cut off.
LEMMA FrameIsRead ==
    ASSUME LayoutOK, NEW k, AtPiece(k), IsFrame(pieces[k]), InspectionNext
    PROVE  Reads(k) \/ (Refuses /\ MayRefuse(k))
<1>1. PICK h, w \in Nat :
          /\ Len(pieces[k]) = 10 /\ pieces[k] \in Frames
          /\ pieces[k][6] = 0 /\ pieces[k][7] = h /\ pieces[k][8] = 0 /\ pieces[k][9] = w
  BY DEF IsFrame, IsSegment
<1>2. /\ AtMarker /\ HasSegment /\ Byte(position) = 255 /\ Byte(marker) \in {192, 194}
      /\ segment = position + 2 /\ Short(segment) = 8
  BY AtSegment DEF IsFrame
<1>3. /\ position \in Nat /\ Len(payload) \in Nat /\ Start(k) = position + Len(pieces[k])
      /\ \A i \in 1..Len(pieces[k]) :
            position + i <= Len(payload) => Byte(position + (i - 1)) = pieces[k][i]
  BY PieceAhead
<1>4. Start(k) = position + 10 /\ segment + Short(segment) = Start(k)
  BY <1>1, <1>2, <1>3
<1>5. ValidSegment <=> Start(k) <= Len(payload)
  BY <1>2, <1>4 DEF ValidSegment
<1>6. AtFrame <=> ValidSegment
  BY <1>2 DEF AtFrame, StartOfFrame
<1>7. ReadFrame \/ RefusePayload
  BY <1>2, <1>6 DEF InspectionNext, SkipByte, SkipMarker, SkipSegment
<1>8. CASE ReadFrame
  <2>1. Start(k) <= Len(payload)
    BY <1>5, <1>6, <1>8 DEF ReadFrame
  <2>2. ASSUME NEW i \in 1..10 PROVE Byte(position + (i - 1)) = pieces[k][i]
    <3>1. i \in 1..Len(pieces[k])
      BY <1>1
    <3>2. position + i <= Len(payload)
      BY <1>3, <1>4, <2>1
    <3>. QED  BY <1>3, <3>1, <3>2
  <2>3. /\ Byte(position + (6 - 1)) = 0 /\ Byte(position + (7 - 1)) = h
        /\ Byte(position + (8 - 1)) = 0 /\ Byte(position + (9 - 1)) = w
    BY <1>1, <2>2
  <2>4. /\ segment + 3 = position + (6 - 1) /\ segment + 3 + 1 = position + (7 - 1)
        /\ segment + 5 = position + (8 - 1) /\ segment + 5 + 1 = position + (9 - 1)
    BY <1>2, <1>3
  <2>5. Short(segment + 3) = 256 * 0 + h /\ Short(segment + 5) = 256 * 0 + w
    BY <2>3, <2>4 DEF Short
  <2>6. Short(segment + 3) = h /\ Short(segment + 5) = w
    BY <2>5
  <2>7. <<Short(segment + 3), Short(segment + 5)>> = <<pieces[k][7], pieces[k][9]>>
    BY <1>1, <2>6, Zenon
  <2>8. /\ size' = <<Short(segment + 3), Short(segment + 5)>>
        /\ UNCHANGED <<pieces, payload, position>>
    BY <1>8 DEF ReadFrame, Report
  <2>9. Len(pieces[k]) = 10 /\ pieces[k] \in Frames
    BY <1>1
  <2>. QED  BY <2>1, <2>7, <2>8, <2>9, Zenon DEF Reads
<1>9. CASE RefusePayload
  <2>1. ~ValidSegment
    <3>1. ~(Short(segment) < 7)
      BY <1>2
    <3>. QED  BY <1>2, <1>9, <3>1 DEF RefusePayload, AtMarker
  <2>. QED  BY <1>5, <1>9, <2>1 DEF RefusePayload, Report, Refuses, MayRefuse
<1>. QED  BY <1>7, <1>8, <1>9

\* A step of the walk passes the piece it is at, reads its frame, or refuses what cannot be read.
LEMMA StepAtPiece ==
    ASSUME LayoutOK, NEW k, AtPiece(k), InspectionNext
    PROVE  Passes(k) \/ Reads(k) \/ (Refuses /\ MayRefuse(k))
<1>1. pieces[k] \in Pieces
  BY PieceAhead
<1>2. CASE IsStray(pieces[k])
  BY <1>2, StrayByteIsPassed
<1>3. CASE IsFilled(pieces[k])
  BY <1>3, FillByteIsPassed
<1>4. CASE IsSegment(pieces[k], 14, 196, 12)
  BY <1>4, SegmentIsPassed
<1>5. CASE IsSegment(pieces[k], 7, 192, 5)
  BY <1>5, ShortFrameIsRefused
<1>6. CASE IsSegment(pieces[k], 4, 225, 1)
  BY <1>6, ShortSegmentIsRefused
<1>7. CASE IsFrame(pieces[k])
  BY <1>7, FrameIsRead
<1>. QED  BY <1>1, <1>2, <1>3, <1>4, <1>5, <1>6, <1>7, PieceKinds

\* The frames that can be read, and the answer they call for.
Sound == {k \in DOMAIN pieces : /\ pieces[k] \in Frames /\ Arrived(k)
                                /\ \A j \in 1..(k - 1) : Len(pieces[j]) \notin {4, 7, 10}}
Right(result) == IF Sound = {} THEN result = <<"invalid">>
                 ELSE \A k \in Sound : result = <<pieces[k][7], pieces[k][9]>>

\* The walk stands behind k pieces that it passed.
Behind(k) == /\ k \in 0..Len(pieces) /\ position = Start(k)
             /\ \A j \in 1..k : Len(pieces[j]) \notin {4, 7, 10}

InspectionInv ==
    /\ LayoutOK
    /\ size = <<>> => \E k \in 0..Len(pieces) : Behind(k)
    /\ size # <<>> => Right(size)

\* A sound frame, and where it lies.
LEMMA SoundFrame ==
    ASSUME LayoutOK, NEW m \in Sound
    PROVE  /\ m \in 1..Len(pieces) /\ pieces[m] \in Frames /\ Len(pieces[m]) = 10
           /\ Start(m) = Start(m - 1) + 10 /\ Start(m) <= Len(payload)
           /\ \A j \in 1..(m - 1) : Len(pieces[j]) \notin {4, 7, 10}
<1>1. m \in 1..Len(pieces) /\ pieces[m] \in Frames
  BY LenProperties DEF Sound, LayoutOK
<1>2. Len(pieces[m]) = 10
  <2>1. Frames \subseteq Pieces
    BY DEF Pieces
  <2>2. \A f, h, w \in Nat : Len(Frame(f, h, w)) = 10
    BY DEF Frame
  <2>. QED  BY <1>1, <2>2 DEF Frames, Baseline, Progressive
<1>3. Start(m) = Start(m - 1) + 10
  BY <1>1, <1>2 DEF LayoutOK
<1>4. Start(m) <= Len(payload)
  BY DEF Sound, Arrived, Start
<1>5. \A j \in 1..(m - 1) : Len(pieces[j]) \notin {4, 7, 10}
  BY DEF Sound
<1>. QED  BY <1>1, <1>2, <1>3, <1>4, <1>5

\* A sound frame lies ahead of the pieces passed, and the walk can go on to it.
LEMMA SoundIsAhead ==
    ASSUME LayoutOK, NEW m \in Sound, NEW k, Behind(k)
    PROVE  /\ k + 1 \in 1..m /\ m \in 1..Len(pieces)
           /\ position + 10 <= Len(payload)
           /\ Start(k + 1) <= Len(payload)
           /\ m # k + 1 => Len(pieces[k + 1]) \notin {4, 7, 10}
<1>1. /\ m \in 1..Len(pieces) /\ Len(pieces[m]) = 10 /\ Len(pieces) \in Nat
      /\ Start(m) = Start(m - 1) + 10 /\ Start(m) <= Len(payload) /\ Len(payload) \in Nat
      /\ \A j \in 1..(m - 1) : Len(pieces[j]) \notin {4, 7, 10}
  BY SoundFrame, LenProperties DEF LayoutOK
<1>2. /\ k \in 0..Len(pieces) /\ position = Start(k)
      /\ \A j \in 1..k : Len(pieces[j]) \notin {4, 7, 10}
  BY DEF Behind
<1>3. ~(m \in 1..k)
  BY <1>1, <1>2
<1>4. k + 1 \in 1..m /\ k \in 0..(m - 1)
  BY <1>1, <1>2, <1>3
<1>5. Start(k) <= Start(m - 1) /\ Start(k + 1) <= Start(m)
  <2>1. m - 1 \in k..Len(pieces) /\ m \in (k + 1)..Len(pieces) /\ k + 1 \in 0..Len(pieces)
    BY <1>1, <1>4
  <2>. QED  BY <1>2, <2>1 DEF LayoutOK
<1>6. Start(k) \in Nat /\ Start(m - 1) \in Nat /\ Start(m) \in Nat /\ Start(k + 1) \in Nat
  <2>1. m - 1 \in 0..Len(pieces) /\ m \in 0..Len(pieces) /\ k + 1 \in 0..Len(pieces)
    BY <1>1, <1>4
  <2>. QED  BY <1>2, <2>1 DEF LayoutOK
<1>7. position + 10 <= Len(payload) /\ Start(k + 1) <= Len(payload)
  BY <1>1, <1>2, <1>5, <1>6
<1>8. m # k + 1 => k + 1 \in 1..(m - 1)
  BY <1>1, <1>4
<1>. QED  BY <1>1, <1>4, <1>7, <1>8

\* Behind a piece that was passed.
LEMMA PassingGoesOn ==
    ASSUME LayoutOK, NEW k, Behind(k), AtPiece(k + 1), Passes(k + 1)
    PROVE  Behind(k + 1)'
<1>1. /\ k + 1 \in 0..Len(pieces) /\ k \in Nat /\ Len(pieces) \in Nat
      /\ \A j \in 1..k : Len(pieces[j]) \notin {4, 7, 10}
      /\ Len(pieces[k + 1]) \notin {4, 7, 10}
  BY LenProperties DEF LayoutOK, Behind, AtPiece, Passes
<1>2. \A j \in 1..(k + 1) : j \in 1..k \/ j = k + 1
  BY <1>1
<1>3. \A j \in 1..(k + 1) : Len(pieces[j]) \notin {4, 7, 10}
  BY <1>1, <1>2
<1>4. position' = Start(k + 1) /\ pieces' = pieces
  BY DEF Passes
<1>. QED  BY <1>1, <1>3, <1>4 DEF Behind, Start

\* The frame that is read is the only sound one.
LEMMA ReadIsRight ==
    ASSUME LayoutOK, NEW k, Behind(k), AtPiece(k + 1), Reads(k + 1)
    PROVE  Right(size')
<1>1. k + 1 \in Sound
  <2>1. k + 1 \in DOMAIN pieces /\ k \in Nat
    BY LenProperties DEF AtPiece, LayoutOK, Behind
  <2>2. Arrived(k + 1)
    BY DEF Reads, Arrived, Start
  <2>3. k + 1 - 1 = k
    BY <2>1
  <2>. QED  BY <2>1, <2>2, <2>3 DEF Sound, Behind, Reads
<1>2. ASSUME NEW m \in Sound PROVE m = k + 1
  BY SoundIsAhead DEF Reads
<1>3. size' = <<pieces[k + 1][7], pieces[k + 1][9]>>
  BY DEF Reads
<1>. QED  BY <1>1, <1>2, <1>3 DEF Right

\* What is refused holds no sound frame.
LEMMA RefusalIsRight ==
    ASSUME LayoutOK, NEW k, Behind(k), size' = <<"invalid">>,
           ~(position + 4 <= Len(payload)) \/ MayRefuse(k + 1)
    PROVE  Right(size')
<1>1. ASSUME NEW m \in Sound PROVE FALSE
  <2>1. position + 10 <= Len(payload) /\ Start(k + 1) <= Len(payload)
    BY <1>1, SoundIsAhead
  <2>2. Len(pieces[k + 1]) \notin {4, 7}
    <3>1. CASE m = k + 1
      <4>1. Len(pieces[m]) = 10
        BY <1>1, SoundFrame
      <4>. QED  BY <3>1, <4>1
    <3>2. CASE m # k + 1
      BY <1>1, <3>2, SoundIsAhead
    <3>. QED  BY <3>1, <3>2
  <2>3. position \in Nat /\ Len(payload) \in Nat
    BY LenProperties DEF Behind, LayoutOK
  <2>. QED  BY <2>1, <2>2, <2>3 DEF MayRefuse
<1>. QED  BY <1>1 DEF Right

\* A step of the walk goes on behind the next piece or gives the right answer.
LEMMA WalkStep ==
    ASSUME LayoutOK, NEW k, Behind(k), size = <<>>, InspectionNext
    PROVE  \/ /\ Behind(k + 1)' /\ UNCHANGED <<pieces, payload, size>>
              /\ position < position' /\ position' <= Len(payload)
           \/ /\ size' # <<>> /\ Right(size') /\ UNCHANGED <<pieces, payload>>
<1>0. k \in Nat /\ Len(pieces) \in Nat /\ position \in Nat /\ Len(payload) \in Nat
  BY LenProperties DEF Behind, LayoutOK
<1>1. CASE ~Walking
  <2>1. RefusePayload
    BY <1>1 DEF InspectionNext, SkipByte, SkipMarker, SkipSegment, ReadFrame, AtFrame,
                ValidSegment, HasSegment, AtMarker
  <2>2. size' = <<"invalid">> /\ UNCHANGED <<pieces, payload>> /\ size' # <<>>
    BY <2>1 DEF RefusePayload, Report
  <2>3. ~(position + 4 <= Len(payload))
    BY <1>1 DEF Walking
  <2>. QED  BY <2>2, <2>3, RefusalIsRight
<1>2. CASE Walking
  <2>1. AtPiece(k + 1)
    <3>1. k # Len(pieces)
      BY <1>0, <1>2 DEF Walking, Behind, LayoutOK
    <3>2. k + 1 \in 1..Len(pieces) /\ k + 1 - 1 = k
      BY <1>0, <3>1 DEF Behind
    <3>. QED  BY <1>2, <3>2 DEF AtPiece, Behind
  <2>2. CASE Passes(k + 1)
    <3>1. Behind(k + 1)'
      BY <2>1, <2>2, PassingGoesOn
    <3>2. Start(k + 1) = position + Len(pieces[k + 1]) /\ Len(pieces[k + 1]) \in Nat \ {0}
      <4>1. Start(k + 1) = position + Len(pieces[k + 1]) /\ pieces[k + 1] \in Pieces
        BY <2>1, PieceAhead
      <4>. QED  BY <4>1, PieceKinds DEF IsStray, IsFilled, IsFrame, IsSegment
    <3>3. /\ position' = Start(k + 1) /\ Start(k + 1) <= Len(payload)
          /\ UNCHANGED <<pieces, payload, size>>
      BY <2>2 DEF Passes
    <3>4. position < position' /\ position' <= Len(payload)
      BY <1>0, <3>2, <3>3
    <3>. QED  BY <3>1, <3>3, <3>4
  <2>3. CASE Reads(k + 1)
    <3>1. Right(size')
      BY <2>1, <2>3, ReadIsRight
    <3>2. size' = <<pieces[k + 1][7], pieces[k + 1][9]>> /\ UNCHANGED <<pieces, payload>>
      BY <2>3 DEF Reads
    <3>3. size' # <<>>
      BY <3>2
    <3>. QED  BY <3>1, <3>2, <3>3
  <2>4. CASE Refuses /\ MayRefuse(k + 1)
    <3>1. size' = <<"invalid">> /\ UNCHANGED <<pieces, payload>> /\ size' # <<>>
      BY <2>4 DEF Refuses
    <3>. QED  BY <2>4, <3>1, RefusalIsRight
  <2>. QED  BY <2>1, <2>2, <2>3, <2>4, StepAtPiece
<1>. QED  BY <1>1, <1>2

\* The pieces of a payload stay where they are, and so does the right answer.
LEMMA LayoutStays ==
    ASSUME UNCHANGED <<pieces, payload>>
    PROVE  /\ LayoutOK => LayoutOK'
           /\ \A r : Right(r)' <=> Right(r)
<1>1. \A k : Start(k)' = Start(k)
  BY DEF Start
<1>2. Sound' = Sound
  BY DEF Sound, Arrived
<1>3. LayoutOK => LayoutOK'
  BY <1>1 DEF LayoutOK
<1>. QED  BY <1>2, <1>3 DEF Right

\* The inductive invariant of the walk of _jpeg_metadata (multimodal/image.py).
THEOREM InspectionInvHolds == InspectionSpec => []InspectionInv
<1>1. InspectionInit => InspectionInv
  <2>. SUFFICES ASSUME InspectionInit PROVE InspectionInv
    OBVIOUS
  <2>1. LayoutOK
    BY PayloadIsLaidOut
  <2>2. size = <<>> /\ position = 2
    BY DEF InspectionInit
  <2>3. Behind(0) /\ 0 \in 0..Len(pieces)
    <3>1. Len(pieces) \in Nat
      BY <2>1, LenProperties DEF LayoutOK
    <3>. QED  BY <2>1, <2>2, <3>1 DEF Behind, LayoutOK
  <2>. QED  BY <2>1, <2>2, <2>3 DEF InspectionInv
<1>2. InspectionInv /\ [InspectionNext]_inspection => InspectionInv'
  <2>. SUFFICES ASSUME InspectionInv, [InspectionNext]_inspection PROVE InspectionInv'
    OBVIOUS
  <2>1. CASE UNCHANGED inspection
    BY <2>1 DEF inspection, InspectionInv, LayoutOK, Start, Behind, Right, Sound, Arrived
  <2>2. CASE InspectionNext
    <3>1. size = <<>>
      BY <2>2 DEF InspectionNext, SkipByte, SkipMarker, SkipSegment, ReadFrame, RefusePayload,
                  AtFrame, ValidSegment, HasSegment, AtMarker, Walking
    <3>2. PICK k \in 0..Len(pieces) : Behind(k)
      BY <3>1 DEF InspectionInv
    <3>3. LayoutOK
      BY DEF InspectionInv
    <3>4. UNCHANGED <<pieces, payload>>
      BY <2>2, <3>1, <3>2, <3>3, WalkStep
    <3>5. LayoutOK'
      BY <3>3, <3>4, LayoutStays
    <3>6. CASE Behind(k + 1)' /\ UNCHANGED <<pieces, payload, size>>
      <4>1. k + 1 \in 0..Len(pieces') /\ size' = <<>>
        BY <3>1, <3>6 DEF Behind
      <4>. QED  BY <3>5, <3>6, <4>1 DEF InspectionInv
    <3>7. CASE size' # <<>> /\ Right(size')
      <4>1. Right(size)'
        BY <3>4, <3>7 DEF Right, Sound, Arrived
      <4>. QED  BY <3>5, <3>7, <4>1 DEF InspectionInv
    <3>. QED  BY <2>2, <3>1, <3>2, <3>3, <3>6, <3>7, WalkStep
  <2>. QED  BY <2>1, <2>2
<1>. QED  BY <1>1, <1>2, PTL DEF InspectionSpec

(* _jpeg_metadata reports the size of the first frame a payload holds, over *)
(* payloads of any number of pieces, cut off anywhere (multimodal/image.py). *)
THEOREM FirstFramesAreReported == InspectionSpec => []FirstFrameIsReported
<1>1. InspectionInv => FirstFrameIsReported
  BY DEF InspectionInv, FirstFrameIsReported, Right, Sound
<1>. QED  BY <1>1, InspectionInvHolds, PTL

(* Each turn of the loop of _jpeg_metadata moves on within the payload or   *)
(* gives the answer, so that the loop ends (multimodal/image.py).           *)
THEOREM WalkGoesForward ==
    InspectionSpec => [][size' # size \/ (position < position' /\ position' <= Len(payload))]_inspection
<1>1. InspectionInv /\ [InspectionNext]_inspection
         => [size' # size \/ (position < position' /\ position' <= Len(payload))]_inspection
  <2>. SUFFICES ASSUME InspectionInv, InspectionNext
                PROVE  size' # size \/ (position < position' /\ position' <= Len(payload))
    OBVIOUS
  <2>1. size = <<>>
    BY DEF InspectionNext, SkipByte, SkipMarker, SkipSegment, ReadFrame, RefusePayload,
           AtFrame, ValidSegment, HasSegment, AtMarker, Walking
  <2>2. PICK k \in 0..Len(pieces) : Behind(k)
    BY <2>1 DEF InspectionInv
  <2>. QED  BY <2>1, <2>2, WalkStep DEF InspectionInv
<1>. QED  BY <1>1, InspectionInvHolds, PTL DEF InspectionSpec
=============================================================================
