----------------------------- MODULE ApiProcess -----------------------------
(***************************************************************************)
(* One API process from the import of sentinel.main to its end: settings,  *)
(* the parts that lifespan builds one after the other, service, shutdown.  *)
(***************************************************************************)
EXTENDS FiniteSets

CONSTANT BaseEnvironments   \* environments from which up to two values depart

\* What a switch may be set to; "on" stands for all only _boolean takes as true.
Raw == {"unset", "true", "on", "false", "junk"}
Artifact == {"absent", "sound", "broken"}

Setting == [environment |-> {"development", "production", "unknown"},
            docs |-> Raw, hsts |-> Raw, limiter |-> Raw, review |-> Raw, distributed |-> Raw,
            credentials |-> {"example", "issued", "malformed"}, ledger |-> {"sound", "broken"},
            baseline |-> Artifact, transformer |-> Artifact, image |-> Artifact,
            index |-> {"unset", "reachable", "unreachable", "bad_threshold"},
            redis |-> {"sound", "malformed"}, kafka |-> {"sound", "malformed"}]

\* Every setting has one of its values.
ASSUME EnvironmentAssumption ==
    \A base \in BaseEnvironments :
        /\ base \in [DOMAIN Setting -> UNION {Setting[a] : a \in DOMAIN Setting}]
        /\ \A a \in DOMAIN Setting : base[a] \in Setting[a]

VARIABLES env, phase, built, open, ready
process == <<env, phase, built, open, ready>>

ProcessInit ==
    /\ \E base \in BaseEnvironments, a, b \in DOMAIN Setting :
          \E x \in Setting[a], y \in Setting[b] : env = [base EXCEPT ![a] = x, ![b] = y]
    /\ phase = "import"
    /\ built = {} /\ open = {}
    /\ ready = FALSE

\* security.config._boolean
Boolean(raw, default) == raw \in {"true", "on"} \/ (raw = "unset" /\ default)
Parses(raw) == raw # "junk"
\* Mutant: reviews become the default, in the part that starts them alone.
RuntimeTrueByDefault(raw) == raw \in {"unset", "true"}

\* The switches that lifespan and build_review_system read by themselves.
RuntimeTrue(raw) == raw = "true"

SettingsValid ==
    /\ Parses(env.docs) /\ Parses(env.hsts) /\ Parses(env.limiter)
    /\ \/ env.environment = "development"
       \/ /\ env.environment = "production"
          /\ ~Boolean(env.docs, TRUE) /\ Boolean(env.hsts, FALSE) /\ Boolean(env.limiter, FALSE)
          /\ Parses(env.review)
          /\ ~(Boolean(env.review, FALSE) /\ env.credentials = "example")

(* A step of the startup: it builds a part that is wanted, passes over one *)
(* that is not, and ends the process with an exception if it cannot.       *)
Step(from, to, wanted, sound, opened) ==
    /\ phase = from
    /\ phase' = IF wanted => sound THEN to ELSE "failed"
    /\ built' = IF wanted /\ sound THEN built \cup {from} ELSE built
    /\ open' = IF wanted THEN open \cup opened ELSE open
    /\ UNCHANGED <<env, ready>>

ImportSettings == Step("import", "baseline", TRUE, SettingsValid, {})

\* Mutant: a baseline that cannot be loaded is left out.
LoadBaselineIfPossible ==
    Step("baseline", "transformer", env.baseline = "sound", TRUE, {})

LoadBaseline == Step("baseline", "transformer", env.baseline # "absent", env.baseline = "sound", {})
LoadTransformer ==
    Step("transformer", "index", env.transformer # "absent", env.transformer = "sound", {})
\* A similarity threshold that is no number is noticed once the client is open.
ConnectIndex == Step("index", "image", env.index # "unset", env.index = "reachable",
                     IF env.index = "unreachable" THEN {} ELSE {"qdrant"})
\* Sound: reviewed metadata, matching checksum, labels mapped to image categories.
LoadImageModel == Step("image", "review", env.image # "absent", env.image = "sound", {})
BuildReviewSystem == Step("review", "jobs", RuntimeTrue(env.review),
                          env.ledger = "sound" /\ env.credentials # "malformed", {})
BuildJobService ==
    Step("jobs", "built", RuntimeTrue(env.distributed), env.redis = "sound" /\ env.kafka = "sound",
         {c \in {"redis", "kafka"} : env.redis = "sound" /\ (c = "kafka" => env.kafka = "sound")})

Serve == /\ phase = "built"
         /\ phase' = "serving" /\ ready' = TRUE
         /\ UNCHANGED <<env, built, open>>

Stop == /\ phase = "serving"
        /\ phase' = "closing_jobs" /\ ready' = FALSE
        /\ UNCHANGED <<env, built, open>>

(* The publisher is closed before the store, both before the engine: what  *)
(* raises keeps the rest from being closed.                                *)
CloseJobService ==
    /\ phase = "closing_jobs"
    /\ \/ phase' = "closing_engine" /\ open' = open \ {"redis", "kafka"}
       \/ "jobs" \in built /\ phase' = "aborted" /\ open' \in {open, open \ {"kafka"}}
    /\ UNCHANGED <<env, built, ready>>

\* Mutant: the engine is closed where there is no job service.
CloseEngineAlone ==
    /\ phase = "closing_engine"
    /\ phase' = "stopped"
    /\ open' = IF "jobs" \in built THEN open ELSE open \ {"qdrant"}
    /\ UNCHANGED <<env, built, ready>>

CloseEngine == /\ phase = "closing_engine"
               /\ phase' = "stopped" /\ open' = open \ {"qdrant"}
               /\ UNCHANGED <<env, built, ready>>

ProcessNext == \/ ImportSettings \/ LoadBaseline \/ LoadTransformer \/ ConnectIndex
               \/ LoadImageModel \/ BuildReviewSystem \/ BuildJobService
               \/ Serve \/ Stop \/ CloseJobService \/ CloseEngine

ProcessSpec == ProcessInit /\ [][ProcessNext]_process
-----------------------------------------------------------------------------
(* A process in production limits rates, shows no documentation and knows  *)
(* no example credentials, although one part of the program validates the  *)
(* switches and another, which reads them differently, acts on them: what  *)
(* the runtime starts, the validation must have counted as enabled         *)
(* (security/config.py, validate; runtime.py, build_review_system).        *)
ProductionIsGuarded ==
    ready /\ env.environment = "production" =>
        /\ ~Boolean(env.docs, TRUE) /\ Boolean(env.limiter, FALSE)
        /\ "review" \in built => env.credentials = "issued"

(* A ready process has every part that its environment asks for: an        *)
(* artifact that is there but broken, an index or a ledger that cannot be  *)
(* opened keeps it from getting ready (main.py, lifespan; runtime.py).     *)
ReadyMeansComplete ==
    ready => /\ \A part \in {"baseline", "transformer", "image"} :
                   IF part \in built THEN env[part] = "sound" ELSE env[part] = "absent"
             /\ ("index" \in built <=> env.index # "unset")
             /\ ("review" \in built <=> env.review = "true")
             /\ ("jobs" \in built <=> env.distributed = "true")
             /\ ("qdrant" \in open <=> "index" \in built)

(* A process that stopped in order left no connection open, whichever      *)
(* parts it had (main.py, lifespan).                                       *)
StopClosesEverything == phase = "stopped" => open = {}
=============================================================================
