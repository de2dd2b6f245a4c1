---------------------------- MODULE CommitReveal ----------------------------
(***************************************************************************)
(* FTSO commits and reveals and the random number of a round.  An account   *)
(* commits to a random number in voting epoch r (submit1) and reveals it by *)
(* the reveal deadline of epoch r + 1 (submit2).  One that committed and    *)
(* did not reveal what it committed to is an offender of the round          *)
(* (GetRoundReveals in common/ftso/round.go), and its numbers do not count  *)
(* for the next BenchingWindow rounds (CalculateRandom in                   *)
(* common/ftso/random.go).                                                 *)
(*                                                                         *)
(* The messages of an account only overwrite what the same account sent     *)
(* before, so the maps that ExtractCommits and ExtractReveals build are     *)
(* kept up to date as the messages arrive.                                 *)
(***************************************************************************)
EXTENDS Integers, FiniteSetsExt, Functions

CONSTANTS Accounts,        \* accounts that submit
          LastRound,       \* rounds 0 .. LastRound are read
          Registered,      \* the accounts registered for the reward epoch of each round
          Random,          \* random numbers
          RandomMod,       \* 2^256
          BenchingWindow,  \* RandomGenerationBenchingWindow
          MinCount         \* NonBenchedRandomVotersMinCount

Round == 0 .. LastRound

ASSUME RandomAssumption == RandomMod \in Nat \ {0} /\ Random \subseteq 0 .. RandomMod - 1

ASSUME RoundsAssumption == {LastRound, BenchingWindow, MinCount} \subseteq Nat

ASSUME AccountsAssumption == IsFiniteSet(Accounts) /\ \A r \in Round : Registered[r] \subseteq Accounts

VARIABLES phase,    \* "chain", or "random" once all is indexed
          epoch,    \* current voting epoch
          late,     \* its reveal deadline has passed
          commits,  \* commitsByRound: the number each account committed to, or NoMessage
          reveals,  \* revealsByRound: the number each account revealed, or NoMessage
          roundReveals, \* round -> Reveals, RegisteredOffenders, AllOffenders
          randoms   \* round -> random result, once calculated

vars == <<phase, epoch, late, commits, reveals, roundReveals, randoms>>

NoMessage == -1
Submitted == [Round -> [Accounts -> Random \cup {NoMessage}]]

Init ==
  /\ phase = "chain" /\ epoch = 0 /\ late = FALSE
  /\ commits = [r \in Round |-> [a \in Accounts |-> NoMessage]]
  /\ reveals = [r \in Round |-> [a \in Accounts |-> NoMessage]]
  /\ roundReveals = [r \in {} |-> {}]
  /\ randoms = [r \in {} |-> {}]

(* Faulty: a commit may still come in voting epoch r + 1.                   *)
SubmitLate(a, number) ==
  /\ phase = "chain" /\ epoch - 1 \in Round
  /\ commits' = [commits EXCEPT ![epoch - 1][a] = number]
  /\ UNCHANGED <<phase, epoch, late, reveals, roundReveals, randoms>>

(* ExtractCommits: the last commit sent in voting epoch r counts.           *)
Submit1(a, number) ==
  /\ phase = "chain" /\ epoch \in Round
  /\ commits' = [commits EXCEPT ![epoch][a] = number]
  /\ UNCHANGED <<phase, epoch, late, reveals, roundReveals, randoms>>

(* ExtractReveals: the last one sent by the reveal deadline of epoch r + 1. *)
Submit2(a, number) ==
  /\ phase = "chain" /\ epoch - 1 \in Round /\ ~late
  /\ reveals' = [reveals EXCEPT ![epoch - 1][a] = number]
  /\ UNCHANGED <<phase, epoch, late, commits, roundReveals, randoms>>

PassDeadline ==
  /\ epoch <= LastRound + 1 /\ ~late /\ late' = TRUE
  /\ UNCHANGED <<phase, epoch, commits, reveals, roundReveals, randoms>>

NextEpoch ==
  /\ late /\ epoch <= LastRound + 1
  /\ epoch' = epoch + 1 /\ late' = FALSE
  /\ UNCHANGED <<phase, commits, reveals, roundReveals, randoms>>

(* getRevealsAndOffenders.  The hash of a commit binds account, round,      *)
(* number and feed values: it matches only what the account committed to.   *)
Committed(r) == {a \in Accounts : commits[r][a] # NoMessage}
SilentOffenders(r, accounts) == {a \in Committed(r) \cap accounts : reveals[r][a] = NoMessage} \* faulty: any number will do
Offenders(r, accounts) == {a \in Committed(r) \cap accounts : reveals[r][a] # commits[r][a]}

(* All is indexed: the data of every round is sorted out.                   *)
GetRoundReveals ==
  /\ phase = "chain" /\ epoch > LastRound + 1
  /\ phase' = "random"
  /\ roundReveals' =
       [r \in {r \in Round : Committed(r) # {}} |->
          [Reveals |-> (Committed(r) \cap Registered[r]) \ Offenders(r, Registered[r]),
           RegisteredOffenders |-> Offenders(r, Registered[r]),
           AllOffenders |-> Offenders(r, Accounts)]]
  /\ UNCHANGED <<epoch, late, commits, reveals, randoms>>

(* The map's zero value stands for a round without commits.                 *)
Reveals(r) == IF r \in DOMAIN roundReveals THEN roundReveals[r].Reveals ELSE {}
RegisteredOffenders(r) == IF r \in DOMAIN roundReveals THEN roundReveals[r].RegisteredOffenders ELSE {}
AllOffenders(r) == IF r \in DOMAIN roundReveals THEN roundReveals[r].AllOffenders ELSE {}

BenchedRegistered(r) == UNION {RegisteredOffenders(q) : q \in {q \in Round : r - BenchingWindow <= q /\ q < r}} \* faulty
BenchingWindowOffenders(r) == UNION {AllOffenders(q) : q \in {q \in Round : r - BenchingWindow <= q /\ q < r}}

RandomValue(r, valid) == SumFunctionOnSet(reveals[r], valid) % RandomMod

(* One round after the other, from the first that has its whole benching     *)
(* window in the data.  The eligible reveals are those of the               *)
(* round, which GetRoundReveals has filtered by the same registration.       *)
CalculateRandom(r) ==
  /\ phase = "random"
  /\ r = BenchingWindow + Cardinality(DOMAIN randoms)
  /\ LET benched == BenchingWindowOffenders(r)
         valid == Reveals(r) \ benched
         result == [value |-> RandomValue(r, valid),
                    isSecure |-> RegisteredOffenders(r) \subseteq benched /\ Cardinality(valid) >= MinCount]
     IN  randoms' = [q \in DOMAIN randoms \cup {r} |-> IF q = r THEN result ELSE randoms[q]]
  /\ UNCHANGED <<phase, epoch, late, commits, reveals, roundReveals>>

Next ==
  \/ \E a \in Accounts, number \in Random : Submit1(a, number) \/ Submit2(a, number)
  \/ PassDeadline \/ NextEpoch
  \/ GetRoundReveals
  \/ \E r \in Round : CalculateRandom(r)

Spec == Init /\ [][Next]_vars
-----------------------------------------------------------------------------
(* Who is out of round r, by what is on the chain: whoever failed to reveal *)
(* in one of the BenchingWindow rounds before, registered or not.           *)
FailedToReveal(a, q) == commits[q][a] # NoMessage /\ reveals[q][a] # commits[q][a]
Out(r) == {a \in Accounts : \E q \in Round : r - BenchingWindow <= q /\ q < r /\ FailedToReveal(a, q)}
Target(r) ==
  SumFunctionOnSet(commits[r], (Committed(r) \cap Registered[r]) \ Out(r)) % RandomMod

(* Nobody can choose a secure random by withholding: if the number of a      *)
(* round is secure it is the sum of all that was committed by those that     *)
(* count, and no reveal that might have changed it is missing.               *)
SecureIsCommitted == \A r \in DOMAIN randoms : randoms[r].isSecure => randoms[r].value = Target(r)

(* ... and that sum is settled when voting epoch r ends, before the first    *)
(* number of round r is revealed: the reveals that decide who is benched are *)
(* due in epoch r itself.                                                   *)
SettledBeforeReveals ==
  [][\A r \in BenchingWindow .. LastRound : epoch > r => Target(r)' = Target(r)]_vars

(* The price of spoiling a round is to count for nothing in the next ones:  *)
(* an account spoils at most one in BenchingWindow + 1 rounds, so when a     *)
(* round is insecure for no other reason than that, someone paid for it who  *)
(* had behaved in the window before.                                        *)
SpoilsOncePerWindow ==
  \A r \in DOMAIN randoms :
    (~randoms[r].isSecure /\ Cardinality((Committed(r) \cap Registered[r]) \ Out(r)) >= MinCount) =>
      \E a \in Registered[r] :
        /\ FailedToReveal(a, r)
        /\ \A q \in Round : r - BenchingWindow <= q /\ q < r => ~FailedToReveal(a, q)
=============================================================================
