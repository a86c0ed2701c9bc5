--------------------------- MODULE ParticleFilter ---------------------------
(***************************************************************************)
(* cjunk/practice/geoParticleFilter.cc: run_pf updates every particle with *)
(* a std::async task per iteration, waits for the futures and collects the *)
(* weights.  A weight is abstracted to the number of updates behind it.    *)
(* normalize and resample only feed the log.                               *)
(***************************************************************************)
EXTENDS Naturals, Sequences

CONSTANTS
  NumParticles,
  MaxIterations,     \* bound: how many iterations run_pf may be asked for
  UnknownLandmarks   \* whether an observation may name a landmark not in the map

ASSUME FilterAssumption ==
  /\ NumParticles \in Nat \ {0} /\ MaxIterations \in Nat
  /\ UnknownLandmarks \in BOOLEAN

VARIABLES
  num_iterations,    \* run_pf's argument
  pc,         \* where run_pf is
  i, j,       \* its loop variables
  futures,    \* the particle and the state of every future pushed so far: running,
              \* ready, failed, or invalid once get() has taken the result
  updates,    \* completed updates of each particle
  weights     \* the weights collected in this iteration

vars == <<num_iterations, pc, i, j, futures, updates, weights>>

Particles == 0 .. NumParticles - 1
\* Nothing catches an exception: it unwinds run_pf, or ends the program at once.
Ends == {"returned", "unwound", "terminated"}

Running(p) == \E f \in DOMAIN futures : futures[f] = [particle |-> p, state |-> "running"]

\* Push the particles, each with weight 1.
Init ==
  /\ num_iterations \in 0 .. MaxIterations
  /\ pc = "launch" /\ i = 0 /\ j = 0
  /\ futures = <<>> /\ weights = <<>>
  /\ updates = [p \in Particles |-> 0]

-----------------------------------------------------------------------------
\* futures.push_back(std::async(..., &particles[j], ...)) for each particle.
Launch ==
  /\ pc = "launch" /\ i < num_iterations
  /\ futures' = Append(futures, [particle |-> j, state |-> "running"])
  /\ j' = (j + 1) % NumParticles
  /\ pc' = IF j + 1 = NumParticles THEN "get" ELSE "launch"
  /\ UNCHANGED <<num_iterations, i, updates, weights>>

\* Slip: a task that failed never makes its future ready.
GetReady ==
  /\ pc = "get" /\ futures[j + 1].state = "ready"
  /\ futures' = [futures EXCEPT ![j + 1].state = "invalid"]
  /\ j' = (j + 1) % NumParticles
  /\ pc' = IF j + 1 = NumParticles THEN "weights" ELSE "get"
  /\ UNCHANGED <<num_iterations, i, updates, weights>>

\* futures[j].get(): waits, and rethrows what the update threw.
Get ==
  /\ pc = "get" /\ futures[j + 1].state \in {"ready", "failed"}
  /\ futures' = [futures EXCEPT ![j + 1].state = "invalid"]
  /\ j' = (j + 1) % NumParticles
  /\ \/ futures[j + 1].state = "ready"
        /\ pc' = IF j + 1 = NumParticles THEN "weights" ELSE "get"
     \/ futures[j + 1].state = "failed" /\ pc' \in {"unwind", "terminated"}
  /\ UNCHANGED <<num_iterations, i, updates, weights>>

\* get() on a future whose result was taken throws std::future_error.
GetInvalid ==
  /\ pc = "get" /\ futures[j + 1].state = "invalid"
  /\ pc' \in {"unwind", "terminated"}
  /\ UNCHANGED <<num_iterations, i, j, futures, updates, weights>>

\* weights.clear(), one push_back per particle, then the log.
CollectWeights ==
  /\ pc = "weights"
  /\ weights' = [k \in 1 .. NumParticles |-> updates[k - 1]]
  /\ i' = i + 1 /\ pc' = "launch"
  /\ UNCHANGED <<num_iterations, j, futures, updates>>

Return ==
  /\ pc = "launch" /\ i = num_iterations
  /\ pc' = "returned"
  /\ UNCHANGED <<num_iterations, i, j, futures, updates, weights>>

\* Slip: the particles go before the futures that wait for their updates.
UnwindUnordered ==
  /\ pc = "unwind" /\ pc' = "unwound"
  /\ UNCHANGED <<num_iterations, i, j, futures, updates, weights>>

\* The futures go first, and the destructor of each waits for its task; the
\* particles the tasks point into go after them.
Unwind ==
  /\ pc = "unwind"
  /\ \A f \in DOMAIN futures : futures[f].state # "running"
  /\ pc' = "unwound"
  /\ UNCHANGED <<num_iterations, i, j, futures, updates, weights>>

-----------------------------------------------------------------------------
\* Slip: the update leaves the weight of an earlier iteration.
updateStale(f) ==
  /\ pc # "terminated" /\ futures[f].state = "running"
  /\ futures' = [futures EXCEPT ![f].state = "ready"]
  /\ UNCHANGED <<num_iterations, pc, i, j, updates, weights>>

\* Particle::update in its task; map_landmarks.at throws for an unknown landmark.
update(f) ==
  /\ pc # "terminated" /\ futures[f].state = "running"
  /\ \/ /\ futures' = [futures EXCEPT ![f].state = "ready"]
        /\ updates' = [updates EXCEPT ![futures[f].particle] = @ + 1]
     \/ /\ UnknownLandmarks
        /\ futures' = [futures EXCEPT ![f].state = "failed"]
        /\ UNCHANGED updates
  /\ UNCHANGED <<num_iterations, pc, i, j, weights>>

Run == Launch \/ Get \/ GetInvalid \/ CollectWeights \/ Return \/ Unwind
Over == pc \in Ends /\ UNCHANGED vars
Next == Run \/ (\E f \in DOMAIN futures : update(f)) \/ Over

\* run_pf runs, and std::launch::async gives every task a thread of its own.
Spec ==
  /\ Init /\ [][Next]_vars
  /\ WF_vars(Run)
  /\ \A f \in 1 .. NumParticles * MaxIterations :
       WF_vars(f \in DOMAIN futures /\ update(f))

-----------------------------------------------------------------------------
\* Two tasks never update the same particle at once, none updates one whose
\* weight is being collected, and however run_pf is left, no task still points
\* into its particles.
TasksStayApart ==
  /\ \A f, g \in DOMAIN futures :
       futures[f] = futures[g] /\ futures[f].state = "running" => f = g
  /\ pc \in {"weights", "returned", "unwound"} => \A p \in Particles : ~Running(p)

\* The weights logged after an iteration are those of all of its updates.
WeightsAreCurrent ==
  pc = "launch" /\ j = 0 /\ i > 0 => weights = [k \in 1 .. NumParticles |-> i]

\* "run all models updates with std::async": run_pf is left before its last
\* iteration only because an update failed.
RunsAllUpdates ==
  pc \in {"unwind", "unwound", "terminated"} => UnknownLandmarks
=============================================================================
