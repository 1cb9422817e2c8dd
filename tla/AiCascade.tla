----------------------------- MODULE AiCascade -----------------------------
(***************************************************************************)
(* A question to the optional AI models: the cascade over the models of      *)
(* app/aircraft/ai_judge.py (or of app/photography/gemini.py, which nothing  *)
(* live calls) and, for each model, the rotation over the keys of its        *)
(* provider in app/ai_keys.py.  Several questions run at once on the same    *)
(* models and keys and suspend at each request.                              *)
(*                                                                          *)
(* A cooldown is over at some moment: how long it lasts is left out.         *)
(***************************************************************************)
EXTENDS Integers, Sequences, FiniteSets, SequencesExt

CONSTANTS
  Cascade,       \* sequence of the models, best first
  KeysOf,        \* the sequence of the keys of the provider of each model
  Questions,
  Kinds,         \* which of "judge" and "photo" the client is
  MaxTurns       \* bound: how often the world changes

\* Of the constants; an instance assumes it.
CascadeAssumption ==
  /\ Cascade \in Seq(DOMAIN KeysOf) /\ \A m \in DOMAIN KeysOf : KeysOf[m] # <<>>
  /\ Kinds \subseteq {"judge", "photo"} /\ MaxTurns \in Nat

VARIABLES
  kind,
  down,      \* models that answer with an error or nothing usable
  refused,   \* keys that are answered 401, 403 or 429
  turns,
  rested,    \* models whose cooldown runs
  cooling,   \* keys whose cooldown runs
  cursor,    \* the place of the first key of each provider's next round
  ask,       \* each question: the places of the models and keys it has left, and how it ended
  able       \* history: pairs of a model and a key that could have answered it all along

vars == <<kind, down, refused, turns, rested, cooling, cursor, ask, able>>

Models == Range(Cascade)
Keys == UNION {Range(KeysOf[m]) : m \in Models}
Idle == [at |-> "idle"]

TypeOK ==
  /\ kind \in Kinds /\ down \subseteq Models /\ refused \subseteq Keys /\ turns \in 0..MaxTurns
  /\ rested \subseteq Models /\ cooling \subseteq Keys /\ \A m \in Models : cursor[m] \in DOMAIN KeysOf[m]
  /\ \A q \in Questions : ask[q].at \in {"idle", "asking", "answered", "failed"}
  /\ able \in [Questions -> SUBSET (Models \X Keys)]

Init ==
  /\ kind \in Kinds /\ down = {} /\ refused = {} /\ turns = 0
  /\ rested = {} /\ cooling = {} /\ cursor = [m \in Models |-> 1]
  /\ ask = [q \in Questions |-> Idle] /\ able = [q \in Questions |-> {}]

--------------------------------------------------------------------------------
\* Keys of a provider

\* candidates: the places of those that are available.
Candidates(m, cool) == {i \in DOMAIN KeysOf[m] : KeysOf[m][i] \notin cool}

\* mark_success and mark_http_failure both go on behind the key at this place.
CursorAfter(m, i) ==
  LET behind == IF i = Len(KeysOf[m]) THEN 1 ELSE i + 1
  IN [n \in Models |-> IF KeysOf[n] = KeysOf[m] THEN behind ELSE cursor[n]]

--------------------------------------------------------------------------------
\* A question

First(places) == CHOOSE i \in places : \A j \in places : i <= j
\* How many places behind the start of a round this one is.
Behind(start, i, ks) == IF i >= start THEN i - start ELSE i - start + Len(ks)

\* The first of the models with a key to try, and its keys from the cursor on; the judge
\* rests the models it passes over.
Enter(q, models, cool, resting) ==
  LET left == {i \in models : \E j \in models : j <= i /\ Candidates(Cascade[j], cool) # {}}
      model == Cascade[First(left)]
  IN /\ rested' = IF kind = "judge" THEN resting \cup {Cascade[i] : i \in models \ left} ELSE resting
     /\ ask' = [ask EXCEPT ![q] = IF left = {} THEN [at |-> "failed"]
                                  ELSE [at |-> "asking", models |-> left,
                                        keys |-> Candidates(model, cool), start |-> cursor'[model]]]

\* _available_models, in whose order the question is put; the photographic client takes all.
Available ==
  {i \in DOMAIN Cascade :
     kind = "photo" \/ (Cascade[i] \notin rested /\ Candidates(Cascade[i], cooling) # {})}

Ask(q) ==
  /\ ask[q].at # "asking"
  /\ UNCHANGED <<kind, down, refused, turns, cooling, cursor>>
  /\ Enter(q, Available, cooling, rested)
  /\ able' = [able EXCEPT ![q] = {p \in Models \X Keys :
                 /\ p[1] \notin down /\ p[2] \in Range(KeysOf[p[1]]) \ (refused \cup cooling)
                 /\ kind = "photo" \/ p[1] \notin rested}]

Model(q) == Cascade[First(ask[q].models)]
\* The models after this one
Others(q) == ask[q].models \ {First(ask[q].models)}
Place(q) ==
  LET ks == KeysOf[Model(q)]
  IN CHOOSE i \in ask[q].keys : \A j \in ask[q].keys : Behind(ask[q].start, i, ks) <= Behind(ask[q].start, j, ks)
Key(q) == KeysOf[Model(q)][Place(q)]

\* The models that rest once this one has failed (_apply_http_backoff)
Rests(q) == IF kind = "judge" THEN rested \cup {Model(q)} ELSE rested

\* _call_gemini and _call_groq differ in what they send.  mark_success, and the text of the answer
Answered(q) ==
  /\ ask[q].at = "asking" /\ Model(q) \notin down /\ Key(q) \notin refused
  /\ cooling' = cooling \ {Key(q)} /\ cursor' = CursorAfter(Model(q), Place(q))
  /\ ask' = [ask EXCEPT ![q] = [at |-> "answered"]]
  /\ UNCHANGED <<kind, down, refused, turns, rested, able>>

\* Mutant of Refused: a refused key ends the attempts with this model.
RefusedEndsModel(q) ==
  /\ ask[q].at = "asking" /\ Key(q) \in refused
  /\ cooling' = cooling \cup {Key(q)} /\ cursor' = CursorAfter(Model(q), Place(q))
  /\ Enter(q, Others(q), cooling', Rests(q))
  /\ able' = [c \in Questions |-> {p \in able[c] : p[2] \notin cooling'}]
  /\ UNCHANGED <<kind, down, refused, turns>>

\* 401, 403 or 429: the key cools and the next one is tried; without one the judge rests
\* the model with the last refusal (_apply_http_backoff), and the next model is entered.
Refused(q) ==
  /\ ask[q].at = "asking" /\ Key(q) \in refused
  /\ cooling' = cooling \cup {Key(q)} /\ cursor' = CursorAfter(Model(q), Place(q))
  /\ IF ask[q].keys # {Place(q)}
     THEN ask' = [ask EXCEPT ![q].keys = @ \ {Place(q)}] /\ UNCHANGED rested
     ELSE Enter(q, Others(q), cooling', Rests(q))
  /\ able' = [c \in Questions |-> {p \in able[c] : p[2] \notin cooling'}]
  /\ UNCHANGED <<kind, down, refused, turns>>

\* Another status, a broken connection or an answer without text: the next model.  The
\* judge takes an answer without text as a success of the key.
Unusable(q) ==
  /\ ask[q].at = "asking" /\ Model(q) \in down
  /\ \/ UNCHANGED <<cooling, cursor>>
     \/ /\ kind = "judge" /\ Key(q) \notin refused
        /\ cooling' = cooling \ {Key(q)} /\ cursor' = CursorAfter(Model(q), Place(q))
  /\ Enter(q, Others(q), cooling', Rests(q))
  /\ UNCHANGED <<kind, down, refused, turns, able>>

--------------------------------------------------------------------------------
\* The clock and the services

ModelBack == \E m \in rested : rested' = rested \ {m} /\ UNCHANGED <<kind, down, refused, turns, cooling, cursor, ask, able>>
KeyBack == \E k \in cooling : cooling' = cooling \ {k} /\ UNCHANGED <<kind, down, refused, turns, rested, cursor, ask, able>>

Turn ==
  /\ turns < MaxTurns /\ turns' = turns + 1
  /\ \/ \E m \in Models : down' = (down \cup {m}) \ (down \cap {m}) /\ UNCHANGED refused
     \/ \E k \in Keys : refused' = (refused \cup {k}) \ (refused \cap {k}) /\ UNCHANGED down
  /\ able' = [q \in Questions |-> {p \in able[q] : p[1] \notin down' /\ p[2] \notin refused'}]
  /\ UNCHANGED <<kind, rested, cooling, cursor, ask>>

Next ==
  \/ \E q \in Questions : Ask(q) \/ Answered(q) \/ Refused(q) \/ Unusable(q)
  \/ ModelBack \/ KeyBack \/ Turn

Spec == Init /\ [][Next]_vars

--------------------------------------------------------------------------------
\* A question fails only when no model and key could have answered it the whole time it ran:
\* refused keys, failed models, the cooldowns another question starts and the cursor it
\* moves never make the cascade pass over a pair that works.
\* src/app/aircraft/ai_judge.py:149, src/app/ai_keys.py:49
FailsOnlyWhenNoneCould == \A q \in Questions : ask[q].at = "failed" => able[q] = {}
=============================================================================
