---------------------------- MODULE ServerHealth ----------------------------
(***************************************************************************)
(* The elasticsearch plugin with a plugin that depends on its status: the  *)
(* migrations plugin (src/kibi_plugins/migrations/index.js) counts the     *)
(* saved objects that are out of date when the elasticsearch plugin turns  *)
(* green.  The siren_federate plugin listens in the same way.              *)
(***************************************************************************)
EXTENDS HealthCheck

CONSTANT MaxEarlier   \* bound: counts under way that an earlier green began

ASSUME CountsAssumption == MaxEarlier \in Nat \ {0}

VARIABLES migrations,   \* the status of the migrations plugin
          listening,    \* it listens to the changes of the elasticsearch plugin
          last,         \* the count that was begun last is under way
          earlier,      \* number of the others that are
          counted       \* not in the code: since elasticsearch turned green the last time, a
                        \* count that was begun since has set the status

counts == <<last, earlier>>
migrationVars == <<migrations, listening, counts, counted>>
allVars == <<vars, migrationVars>>

Verdicts == {"red", "green"}

HealthTypeOK ==
    /\ TypeOK
    /\ migrations \in {"uninitialized", "yellow"} \cup Verdicts
    /\ listening \in BOOLEAN /\ counted \in BOOLEAN
    /\ last \in BOOLEAN /\ earlier \in 0..MaxEarlier

HealthInit ==
    /\ Init
    /\ migrations = "uninitialized" /\ listening = FALSE
    /\ last = FALSE /\ earlier = 0 /\ counted = FALSE

\* checkMigrations begins a count.
CheckMigrations ==
    /\ last' = TRUE
    /\ earlier' = IF last THEN earlier + 1 ELSE earlier
    /\ earlier' <= MaxEarlier

\* The init of the plugin, after that of the elasticsearch plugin: it counts once, or
\* listens.
MigrationsInit ==
    /\ migrations = "uninitialized" /\ starts < MaxStarts
    /\ migrations' = "yellow"
    /\ IF status.state = "green" THEN CheckMigrations /\ UNCHANGED listening
                                 ELSE listening' = TRUE /\ UNCHANGED counts
    /\ UNCHANGED <<vars, counted>>

\* Status emits a change when the state or the message is another; the listener runs at
\* once.  The mutant does not listen any more once it has a verdict.
TurnsGreen == status' # status /\ status'.state = "green"
ListenOnce ==
    IF listening /\ TurnsGreen /\ migrations \notin Verdicts
    THEN CheckMigrations ELSE UNCHANGED counts
Listen == IF listening /\ TurnsGreen THEN CheckMigrations ELSE UNCHANGED counts

\* What the listener sees of a step of the elasticsearch plugin or of its clusters.
Heard ==
    /\ Listen
    /\ counted' = (counted /\ ~TurnsGreen)
    /\ UNCHANGED <<migrations, listening>>
HealthStep == Next /\ Heard

\* Some objects are out of date or the count fails, or none is.  The answers of the counts
\* come in any order; the status keeps what came last.
Verdict ==
    /\ last /\ last' = FALSE /\ counted' = TRUE
    /\ migrations' \in Verdicts
    /\ UNCHANGED <<vars, listening, earlier>>
LateVerdict ==
    /\ earlier > 0 /\ earlier' = earlier - 1
    /\ migrations' \in Verdicts
    /\ UNCHANGED <<vars, listening, last, counted>>

HealthNext == HealthStep \/ MigrationsInit \/ Verdict \/ LateVerdict

HealthSpec == HealthInit /\ [][HealthNext]_allVars

\* The plugins are initialized, timers fire and the Elasticsearch client settles every
\* call, those of the loops too.
With(A) == A /\ Heard
FairHealthSpec ==
    /\ HealthSpec
    /\ WF_allVars(starts = MaxStarts /\ With(Start))
    /\ WF_allVars(MigrationsInit)
    /\ \A i \in Ids : WF_allVars(With(TimerFires(i))) /\ WF_allVars(With(CheckStep(i)))
    /\ WF_allVars(With(VersionLoop)) /\ WF_allVars(With(CustomLoop))
    /\ WF_allVars(Verdict) /\ WF_allVars(LateVerdict)

-----------------------------------------------------------------------------
\* The status follows the clusters, whatever is left in the background: when they stay
\* ready it turns green and stays green, and when the admin cluster stays in a condition
\* that blocks the check it turns red and stays red.
StatusFollows ==
    /\ <>[](es = "ready" /\ custom = "up" /\ ~stopped) => <>[](status.state = "green")
    /\ <>[](es \in Blocking /\ ~stopped) => <>[](status.state = "red")

\* Each time the elasticsearch plugin turns green, a count begun since sets the status of
\* the migrations plugin, unless it turns red or yellow before that; and if it was green at
\* the init of the migrations plugin, which then does not listen, one count does.  Nothing
\* is said of what comes later: the answer to an earlier count may replace the status.
VerdictReached ==
    /\ (listening /\ status.state = "green") ~> (counted \/ status.state # "green")
    /\ (migrations = "yellow" /\ ~listening) ~> migrations \in Verdicts
=============================================================================
