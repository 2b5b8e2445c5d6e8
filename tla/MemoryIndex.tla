------------------------------ MODULE MemoryIndex ------------------------------
(***************************************************************************)
(* The recall memory as both adapters see it: a map from keys to values    *)
(* and a term index over it (src/crates/adapters/src/memory.rs).  TermsOf  *)
(* stands for tokenize_terms over key and value.  Timestamps, which only   *)
(* order what a recall returns, are left out.                              *)
(***************************************************************************)
EXTENDS Naturals, FiniteSets

CONSTANTS Keys, Values,
          NoValue,    \* a key that is not stored
          CutValue,   \* what a text that was cut makes of a value
          Terms, TermsOf

Stored == Values \cup {CutValue}
Maps == [Keys -> Stored \cup {NoValue}]

ASSUME MemoryAssumption ==
    /\ NoValue \notin Stored
    /\ TermsOf \in [Keys \X Stored -> SUBSET Terms]

EmptyMap == [k \in Keys |-> NoValue]
Pairs(terms) == {p \in Terms \X Keys : p[1] \in terms[p[2]]}

\* record_terms of every record.
TermsIn(m) == [k \in Keys |-> IF m[k] = NoValue THEN {} ELSE TermsOf[<<k, m[k]>>]]

\* MarkdownIndexState: key_to_terms, and term_to_keys as pairs.
EmptyIndex == [terms |-> [k \in Keys |-> {}], postings |-> {}]

\* Mutant of RemoveKey: the postings of the old value stay.
RemoveKeyButPostings(i, k) == [i EXCEPT !.terms[k] = {}]

\* remove_key: the postings key_to_terms says the key has.
RemoveKey(i, k) ==
    [terms |-> [i.terms EXCEPT ![k] = {}],
     postings |-> i.postings \ {<<t, k>> : t \in i.terms[k]}]

UpsertRecord(i, k, v) ==
    LET clean == RemoveKey(i, k) IN
    [terms |-> [clean.terms EXCEPT ![k] = TermsOf[<<k, v>>]],
     postings |-> clean.postings \cup {<<t, k>> : t \in TermsOf[<<k, v>>]}]

\* from_records: one upsert per record, into an empty index.
FromRecords(m) == [terms |-> TermsIn(m), postings |-> Pairs(TermsIn(m))]

\* matched_keys and fetch_records_with_terms: the keys with every term of the
\* query; a query without a term matches nothing.
Matched(m, postings, query) ==
    {k \in Keys : m[k] # NoValue /\ query # {} /\ \A t \in query : <<t, k>> \in postings}

\* What a recall should find: no stale key, none missing.
Found(m, query) == {k \in Keys : m[k] # NoValue /\ query # {} /\ query \subseteq TermsOf[<<k, m[k]>>]}
=============================================================================
