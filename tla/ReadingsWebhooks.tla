--------------------------- MODULE ReadingsWebhooks ----------------------------
(***************************************************************************)
(* The readings webhooks (backend/app/integrations/readings_webhook.py):   *)
(* one task posts the snapshot to each endpoint that is due, one after the *)
(* other, and sleeps until the next is due.  What it knows of the time is  *)
(* the moment its pass began, while a slow endpoint holds up the others.   *)
(* The client's timeout is one of every connect, write and read, so that a *)
(* post has no longest time: an endpoint may answer as slowly as it likes. *)
(*                                                                         *)
(* Times are kept as ages, so that they need no bound but AgeCap.          *)
(***************************************************************************)
EXTENDS Naturals, Sequences, FiniteSetsExt

CONSTANTS
  Endpoints,     \* ids, in the order of the list
  Configured,    \* of an endpoint: its interval_s
  MinInterval,   \* MIN_INTERVAL_S
  Default,       \* DEFAULT_INTERVAL_S, also the longest sleep
  MaxPost,       \* bound: time that a post takes; the code sets none
  AgeCap,        \* bound: an age beyond which everything is due
  Idle

Ids == {Endpoints[i] : i \in DOMAIN Endpoints}

\* An endpoint without an interval has the default.
Every(e) == Max({IF Configured[e] = 0 THEN Default ELSE Configured[e], MinInterval})

\* What the constants must satisfy; instances assume it.
WebhookAssumption ==
  /\ MinInterval \in Nat \ {0} /\ Default \in Nat \ {0} /\ MaxPost \in Nat
  /\ Endpoints \in Seq(Ids) /\ Configured \in [Ids -> Nat]
  /\ Idle \notin Nat /\ Idle \notin [at : Nat, listed : SUBSET Ids, begun : Nat, soonest : Nat]
  /\ AgeCap \in Nat /\ \A e \in Ids : AgeCap > Every(e) + Len(Endpoints) * MaxPost

VARIABLES
  wanted,    \* endpoints that are enabled and have a url
  age,       \* time since _last_sent; since the host's boot when there is none
  pass,      \* of _tick: the place in the list, the endpoints then wanted, time since it began,
             \* sleep so far
  posting,   \* time that the post under way has taken, or Idle
  sleep,     \* time left until the next pass, or Idle
  waited,    \* history: time since the last post began, or since the endpoint was enabled
  fresh,     \* history: endpoints enabled since their last post
  held       \* history: time that the posts of the last pass took

vars == <<wanted, age, pass, posting, sleep, waited, fresh, held>>

Older(a) == Min({a + 1, AgeCap})

Init ==
  /\ wanted \in SUBSET Ids
  /\ \E uptime \in 0 .. AgeCap : age = [e \in Ids |-> uptime]
  /\ pass = Idle /\ posting = Idle /\ sleep = 0
  /\ waited = [e \in Ids |-> 0] /\ fresh = wanted /\ held = 0

\* put_readings_webhooks
Put ==
  /\ wanted' \in SUBSET Ids
  /\ waited' = [e \in Ids |-> IF e \in wanted THEN waited[e] ELSE 0]
  /\ fresh' = (fresh \union wanted') \ (wanted \ fresh)
  /\ UNCHANGED <<age, pass, posting, sleep, held>>

\* A pass reads the list and the clock.
Begin ==
  /\ sleep = 0 /\ sleep' = Idle
  /\ pass' = [at |-> 1, listed |-> wanted, begun |-> 0, soonest |-> Default]
  /\ UNCHANGED <<wanted, age, posting, waited, fresh, held>>

\* The endpoint at hand is done, and due again in d.
NextDueIn(d) == [pass EXCEPT !.at = @ + 1, !.soonest = Min({@, d})]

AtHand  == Endpoints[pass.at]
Looking == pass # Idle /\ posting = Idle /\ pass.at <= Len(Endpoints)

\* Disabled, or without a url.
Skip ==
  /\ Looking /\ AtHand \notin pass.listed
  /\ pass' = [pass EXCEPT !.at = @ + 1]
  /\ UNCHANGED <<wanted, age, posting, sleep, waited, fresh, held>>

NotDue ==
  /\ Looking /\ AtHand \in pass.listed
  /\ LET e == AtHand
     IN  /\ age[e] - pass.begun < Every(e)
         /\ pass' = NextDueIn(Every(e) + pass.begun - age[e])
  /\ UNCHANGED <<wanted, age, posting, sleep, waited, fresh, held>>

\* The endpoint is marked as served at the time the pass began, then post_once.
Post ==
  /\ Looking /\ AtHand \in pass.listed
  /\ LET e == AtHand
     IN  /\ age[e] - pass.begun >= Every(e)
         /\ age' = [age EXCEPT ![e] = pass.begun]
         /\ waited' = [waited EXCEPT ![e] = 0]
         /\ fresh' = fresh \ {e}
  /\ posting' = 0
  /\ UNCHANGED <<wanted, pass, sleep, held>>

\* Mutant: an endpoint that was posted to does not count for the sleep.
PostEndsUncounted ==
  /\ posting # Idle /\ posting' = Idle
  /\ pass' = NextDueIn(Default)
  /\ UNCHANGED <<wanted, age, sleep, waited, fresh, held>>

\* The post succeeds or fails, after whatever time; there may be no reading to post.
PostEnds ==
  /\ posting # Idle /\ posting' = Idle
  /\ pass' = NextDueIn(Every(AtHand))
  /\ UNCHANGED <<wanted, age, sleep, waited, fresh, held>>

End ==
  /\ pass # Idle /\ posting = Idle /\ pass.at > Len(Endpoints)
  /\ sleep' = pass.soonest /\ held' = pass.begun
  /\ pass' = Idle
  /\ UNCHANGED <<wanted, age, posting, waited, fresh>>

\* Time passes while the task sleeps or waits for an answer.
Elapse ==
  /\ \/ /\ sleep \notin {Idle, 0} /\ sleep' = sleep - 1 /\ UNCHANGED <<posting, pass>>
     \/ /\ posting # Idle /\ posting < MaxPost /\ posting' = posting + 1
        /\ pass' = [pass EXCEPT !.begun = @ + 1] /\ UNCHANGED sleep
  /\ age' = [e \in Ids |-> Older(age[e])]
  /\ waited' = [e \in Ids |-> IF e \in wanted THEN waited[e] + 1 ELSE 0]
  /\ UNCHANGED <<wanted, fresh, held>>

Next == Put \/ Begin \/ Skip \/ NotDue \/ Post \/ PostEnds \/ End \/ Elapse

Spec == Init /\ [][Next]_vars

--------------------------------------------------------------------------------
TypeOK ==
  /\ wanted \subseteq Ids /\ age \in [Ids -> 0 .. AgeCap]
  /\ pass = Idle \/ (pass.at \in 1 .. Len(Endpoints) + 1 /\ pass.begun \in Nat /\ pass.soonest \in 1 .. Default)
  /\ posting \in {Idle} \union 0 .. MaxPost /\ sleep \in {Idle} \union 0 .. Default
  /\ fresh \subseteq Ids /\ held \in Nat
  /\ (pass = Idle) # (sleep = Idle)

\* An enabled endpoint is posted to in time, whatever the others do: after its interval (or the
\* longest sleep, if it has just been enabled), later only by what the posts of one pass have
\* taken, the one before, and by what those of the pass at hand have taken so far.  The delays do
\* not add up from pass to pass.  Nothing is said of how long a post takes.
PostedInTime ==
  \A e \in wanted :
    waited[e] <= (IF e \in fresh THEN Max({Every(e), Default}) ELSE Every(e))
                   + held + (IF pass = Idle THEN 0 ELSE pass.begun)
================================================================================
