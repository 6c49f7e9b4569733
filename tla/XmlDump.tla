------------------------------- MODULE XmlDump -------------------------------
(***************************************************************************)
(* Old/blk_xmlrpc-dump.py: records are read from a database and written as *)
(* an OpenERP data file, in which a record may only refer to a record that *)
(* is defined before it or that the target already has.  dump() calls      *)
(* itself on what a record refers to, adds the record, then calls itself   *)
(* on what its one2many fields list: `calls` is the stack of those calls.  *)
(* Fields, and the ids of a field, come in any order.                      *)
(***************************************************************************)
EXTENDS Naturals, Sequences, FiniteSets

CONSTANTS
  Record,      \* (model, id) pairs
  NoRecord,    \* no record
  MaxDepth     \* calls of dump() the recursion limit of Python allows

ASSUME ExportAssumption == NoRecord \notin Record /\ MaxDepth \in Nat

VARIABLES
  base,        \* the database, which does not change
  calls,       \* the calls of dump() in progress: [ids, rec, refs, top]
  known,       \* keys of xml_ids
  req,         \* keys of req_ids
  elements,    \* xml_elements, in order
  domains,     \* search_ids: the records each search finds
  searches,    \* what the file searches: [want, found], sets of records
  saved,       \* how many elements save() has written
  place        \* "dump", "save", "saved", "lost" (too deep a recursion) or "failed"

exportVars == <<base, calls, known, req, elements, domains, searches, saved, place>>

\* one, many: what the many2one fields and the many2many field of a record refer
\* to.  open: records with a one2many field, listing those that refer to them.
\* named: records with an id in ir.model.data, ours: with one of option.module.
\* searched: records of the models of object_search.  finds: what a search for
\* the values of a record finds: nothing when one is empty, as it is written
\* 'False', and also the records that have the same.  empty: records with a
\* required many2many field of a searched model without any value.  asked: what
\* main dumps.
Base == [one : [Record -> SUBSET Record], many : [Record -> SUBSET Record],
         open : SUBSET Record, named : SUBSET Record, ours : SUBSET Record,
         searched : SUBSET Record, finds : [Record -> SUBSET Record],
         empty : SUBSET Record, asked : SUBSET Record]

Links(r) == base.one[r] \cup base.many[r]

Children(r) == IF r \in base.open THEN {c \in Record : r \in base.one[c]} ELSE {}

Call(ids, top) == [ids |-> ids, rec |-> NoRecord, refs |-> {}, top |-> top]

ExportStart(b) ==
  /\ base = b
  /\ calls = <<Call(b.asked, TRUE)>>
  /\ known = {} /\ req = {}
  /\ elements = <<>>
  /\ domains = [f \in {} |-> {}]
  /\ searches = {} /\ saved = 0
  /\ place = "dump"

-----------------------------------------------------------------------------
current == calls[Len(calls)]

Becomes(call) == [calls EXCEPT ![Len(calls)] = call]

dumping == place = "dump" /\ calls # <<>> /\ UNCHANGED <<base, searches, saved>>

\* Another call: beyond the recursion limit the program ends.
CallDump(ids, frames) ==
  IF Len(frames) < MaxDepth
  THEN calls' = Append(frames, Call(ids, FALSE)) /\ UNCHANGED place
  ELSE calls' = frames /\ place' = "lost"

\* mutant: the id of a record is entered once it is written
NextRecord_Late ==
  /\ dumping /\ current.rec = NoRecord
  /\ \E r \in current.ids :
       calls' = IF r \in base.named /\ current.top THEN Becomes([current EXCEPT !.ids = @ \ {r}])
                ELSE Becomes([current EXCEPT !.ids = @ \ {r}, !.rec = r, !.refs = Links(r)])
  /\ UNCHANGED <<known, req, elements, domains, place>>

\* for id in ids: main leaves out the records that have an id of their own
NextRecord ==
  /\ dumping /\ current.rec = NoRecord
  /\ \E r \in current.ids :
       IF r \in base.named /\ current.top
       THEN calls' = Becomes([current EXCEPT !.ids = @ \ {r}]) /\ UNCHANGED <<known, req>>
       ELSE /\ calls' = Becomes([ids |-> current.ids \ {r}, rec |-> r, refs |-> Links(r),
                                 top |-> current.top])
            /\ known' = known \cup {r} /\ req' = req \cup {r}
  /\ UNCHANGED <<elements, domains, place>>

\* for field in record.int_rel_fields: a record that is not known is named by
\* the target, searched for, or dumped first
NextRef ==
  /\ dumping /\ current.rec # NoRecord
  /\ \E f \in current.refs :
       LET left == Becomes([current EXCEPT !.refs = @ \ {f}])
           enter == f \notin known /\ f \in base.named /\ f \notin req
           search == f \notin known /\ ~enter /\ f \in base.searched
       IN /\ known' = IF enter THEN known \cup {f} ELSE known
          /\ domains' = IF search /\ f \notin DOMAIN domains
                        THEN [x \in DOMAIN domains \cup {f} |->
                                IF x = f THEN base.finds[f] ELSE domains[x]]
                        ELSE domains
          /\ IF f \in known \/ enter \/ search
             THEN calls' = left /\ UNCHANGED place
             ELSE CallDump({f}, left)
  /\ UNCHANGED <<req, elements>>

Written == {elements[i] : i \in DOMAIN elements}

\* mutant: a record is added as soon as its fields are looked at
Emit_First ==
  /\ dumping /\ current.rec # NoRecord
  /\ elements' = IF current.rec \notin Written THEN Append(elements, current.rec) ELSE elements
  /\ IF current.refs # {} THEN current.rec \notin Written /\ UNCHANGED <<calls, place>>
     ELSE CallDump(Children(current.rec), Becomes([current EXCEPT !.rec = NoRecord]))
  /\ UNCHANGED <<known, req, domains>>

\* Once what it refers to is there the record is added, unless it was, and a
\* record of our module again; then dump() of what its one2many fields list.
Emit ==
  /\ dumping /\ current.rec # NoRecord /\ current.refs = {}
  /\ elements' = IF current.rec \notin Written \/ current.rec \in base.ours
                 THEN Append(elements, current.rec) ELSE elements
  /\ CallDump(Children(current.rec), Becomes([current EXCEPT !.rec = NoRecord]))
  /\ UNCHANGED <<known, req, domains>>

Return ==
  /\ dumping /\ current.rec = NoRecord /\ current.ids = {}
  /\ calls' = SubSeq(calls, 1, Len(calls) - 1)
  /\ place' = IF Len(calls) = 1 THEN "save" ELSE place
  /\ UNCHANGED <<known, req, elements, domains>>

\* z_exec raises again what the server answers; a record may also have two ids.
\* Nothing has been written.
ExportFails ==
  /\ place \in {"dump", "save"} /\ place' = "failed"
  /\ UNCHANGED <<base, calls, known, req, elements, domains, searches, saved>>

-----------------------------------------------------------------------------
(* save(): save_to_xml of each element in turn.                            *)

\* a many2one reference is searched for when its record has no known id
SearchedOne(r) == {f \in base.one[r] : f \notin known /\ f \in DOMAIN domains}

\* a many2many field of a model of object_search is searched for as a whole
SearchedMany(r) == IF base.many[r] \subseteq base.searched THEN base.many[r] ELSE {}

\* the domain of search_ids, or one that is made of the values of the record
Found(f) == IF f \in DOMAIN domains THEN domains[f] ELSE base.finds[f]

\* mutant: the domains of the others are not added
Joined_None(fids, first) == Found(first)

Joined(fids, first) == UNION {Found(f) : f \in fids}

\* The domain of the first record of the many2many field is extended with the
\* others, in search_ids itself: a field read later is given the longer one.  A
\* field that is required and empty is given the domain of the field before it,
\* and without one the export fails.
SaveRecord ==
  /\ place = "save" /\ saved < Len(elements)
  /\ LET r == elements[saved + 1]
         fids == SearchedMany(r)
         required == IF r \in base.empty THEN {{}} ELSE {}
     IN /\ required # {} => fids # {}
        /\ \E first \in IF fids = {} THEN {NoRecord} ELSE fids, manyFirst \in BOOLEAN :
             /\ domains' = [f \in DOMAIN domains \cup fids |->
                               IF f = first THEN Joined(fids, first) ELSE Found(f)]
             /\ searches' = searches
                  \cup {[want |-> {f}, found |-> IF manyFirst THEN domains'[f] ELSE Found(f)] :
                           f \in SearchedOne(r)}
                  \cup {[want |-> w, found |-> Joined(fids, first)] :
                           w \in required \cup (IF fids = {} THEN {} ELSE {fids})}
  /\ saved' = saved + 1
  /\ UNCHANGED <<base, calls, known, req, elements, place>>

\* the file is opened once the whole text is there
WriteFile ==
  /\ place = "save" /\ saved = Len(elements)
  /\ place' = "saved"
  /\ UNCHANGED <<base, calls, known, req, elements, domains, searches, saved>>

ExportNext ==
  \/ NextRecord \/ NextRef \/ Emit \/ Return
  \/ SaveRecord \/ WriteFile \/ ExportFails

\* of any database
ExportSpec == (\E b \in Base : ExportStart(b)) /\ [][ExportNext]_exportVars

-----------------------------------------------------------------------------
(* Properties                                                              *)

\* no record refers to itself, even by way of others
Acyclic == \A S \in (SUBSET Record) \ {{}} : \E r \in S : Links(r) \cap S = {}

\* x is dumped with what c refers to, c left aside
DumpedWith(c, x) ==
  \A S \in SUBSET (Record \ {c}) :
    /\ Links(c) \ {c} \subseteq S
    /\ \A y \in S : (Links(y) \cup Children(y)) \ {c} \subseteq S
    => x \in S

\* nothing that is dumped with what a record refers to refers back to it
Untangled == \A c, x \in Record : c # x /\ c \in Links(x) => ~DumpedWith(c, x)

\* The file defines each record it defines before it refers to it, and the
\* others are the target's or searched for (dump(), get_ref_value), as long as
\* nothing dumped with what a record refers to refers back to it, and no
\* record of a model of object_search is dumped itself.
DefinedFirst ==
  place = "saved" /\ Acyclic /\ Untangled /\ base.searched \cap req = {} =>
    \A i \in DOMAIN elements : \A f \in Links(elements[i]) :
      \/ \E j \in 1..(i - 1) : elements[j] = f
      \/ f \in base.named \cup base.searched

\* Calls of dump() nest a bounded number of times, although one2many fields
\* come back to the record the call is for, unless references turn in circles.
RecursionEnds == Acyclic => place # "lost"

\* However the domains of search_ids grow together while records are saved, a
\* search that the file holds finds all that the values of the records it is for
\* would find: the loop over the others of a many2many field loses none of them,
\* and a field saved later is not cut back (save_to_xml, _search_rel).
SearchesMissNone ==
  \A s \in searches : \A f \in s.want : base.finds[f] \subseteq s.found
=============================================================================
