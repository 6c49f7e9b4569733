---------------------------- MODULE MCServerTools ---------------------------
EXTENDS ServerTools

CONSTANTS A, B, i1, i2, sy

MCSrcOf == [oc \in OC |-> IF oc = A THEN {i1} ELSE {}]

\* the databases keep their names on the targets
MCCut == [b \in Base |-> b]

Plain(s, names) == [b \in names |-> [version |-> 0, of |-> s]]

MCHeld0 ==
  [s \in OC \cup {Prod} |->
     CASE s = Prod -> Plain(s, {i1, i2, sy})
       [] s = A -> Plain(s, {i2})
       [] OTHER -> Plain(s, {})]

\* no dump, or one that was made of a production database
MCFiles0 ==
  {{}, {[name |-> i1, db |-> [version |-> 0, of |-> Prod], good |-> TRUE]}}

MCExcludes == {{}}
=============================================================================
