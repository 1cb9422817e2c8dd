---------------------------- MODULE DocumentStore ----------------------------
(***************************************************************************)
(* What the program expects of a collection of documents, whichever         *)
(* database keeps it: every call takes effect at once and as a whole, or    *)
(* fails and changes nothing; expired documents vanish at any time.         *)
(***************************************************************************)
EXTENDS Naturals

CONSTANTS
  Ids,    \* identities of documents
  Keys,   \* values of the field with a unique index
  Calls,  \* calls of the program
  Op,     \* [Calls -> Ops]
  Key     \* [Calls -> Keys]: what a call looks for, or writes

Ops == {"find", "insert", "upsert", "rename", "replace", "delete"}
\* Of the constants; an instance assumes it.
StoreAssumption ==
  Op \in [Calls -> Ops] /\ Key \in [Calls -> Keys] /\ "gone" \notin Keys

VARIABLES docs, pending, expired

Doc == [key : Keys, n : Nat]
Gone == [key |-> "gone", n |-> 0]
Found(c, d) == {i \in DOMAIN d : d[i].key = Key[c]}

Nothing == [i \in {} |-> Gone]

\* What becomes of a document that is updated, or new.
Counted(doc) == [doc EXCEPT !.n = @ + 1]
Fresh(c) == [key |-> Key[c], n |-> 0]
New(free, doc) == {[j \in {i} |-> doc] : i \in free}
\* Identities for new documents: an identity that expired is not given again.
Free(d) == Ids \ (DOMAIN d \cup expired)

\* The documents a call writes, by identity: all that match, or the first one.
Writes(c, d, free) ==
  LET hit == Found(c, d)
  IN CASE Op[c] = "find"    -> {Nothing}
       [] Op[c] = "insert"  -> New(free, Fresh(c))
       [] Op[c] = "upsert"  -> IF hit = {} THEN New(free, Counted(Fresh(c)))
                               ELSE {[j \in {i} |-> Counted(d[i])] : i \in hit}
       [] Op[c] = "rename"  -> {[i \in DOMAIN d |-> [Counted(d[i]) EXCEPT !.key = Key[c]]]}
       [] Op[c] = "replace" -> IF hit = {} THEN New(free, Fresh(c))
                               ELSE {[j \in {i} |-> Fresh(c)] : i \in hit}
       [] Op[c] = "delete"  -> {[i \in hit |-> Gone]}

Live(d, dead) == [i \in DOMAIN d \ dead |-> d[i]]
Over(d, w) == [i \in DOMAIN d \cup DOMAIN w |-> IF i \in DOMAIN w THEN w[i] ELSE d[i]]
Written(d, w) == LET all == Over(d, w) IN [i \in {j \in DOMAIN all : all[j] # Gone} |-> all[i]]
Unique(d) == \A i, j \in DOMAIN d : d[i].key = d[j].key => i = j

Init == docs = Nothing /\ pending = Calls /\ expired = {}

Take(c) ==
  /\ c \in pending /\ pending' = pending \ {c}
  /\ \E dead \in SUBSET expired : \E later \in SUBSET expired : LET alive == Live(docs, dead) IN
       \E w \in Writes(c, alive, Free(alive)) : docs' = Live(Written(alive, w), later) /\ Unique(docs')
  /\ UNCHANGED expired

Refuse(lost) == pending' = pending \ lost /\ UNCHANGED <<docs, expired>>

Expire == \E i \in Ids : expired' = expired \cup {i} /\ UNCHANGED <<docs, pending>>
Purge == \E dead \in SUBSET expired : docs' = Live(docs, dead) /\ UNCHANGED <<pending, expired>>

Next == (\E c \in Calls : Take(c)) \/ (\E lost \in SUBSET pending : Refuse(lost)) \/ Expire \/ Purge
Spec == Init /\ [][Next]_<<docs, pending, expired>>
================================================================================
