--------------------------- MODULE ContractHashes ---------------------------
(***************************************************************************)
(* The compatibility hashes: what of the OpenAPI document and of the       *)
(* tables each of them is taken over.  A digest is the value it is taken   *)
(* of: that two of them collide is left out.                               *)
(***************************************************************************)
EXTENDS FiniteSets

CONSTANTS
  Resources,  \* API resources, each with the paths under its prefix
  Methods,    \* HTTP methods
  Schemas,    \* names in components/schemas
  Responses,  \* names in components/responses
  Tables,     \* database tables
  Shapes,     \* structure of a fragment of the document, or of a table
  Texts,      \* descriptions, summaries, examples; callable defaults of a table
  None        \* absent

Operations == Resources \X Methods

(* A piece of the document: its structure, its documentation and the $refs in it. *)
Fragments == [shape : Shapes, text : Texts, schemas : SUBSET Schemas, responses : SUBSET Responses]

(* What is defined in one commit.  Schemas refer to schemas only. *)
IsContract(c) ==
  /\ c.operations \in [Operations -> Fragments \union {None}]
  /\ c.schemas \in [Schemas -> {f \in Fragments : f.responses = {}} \union {None}]
  /\ c.responses \in [Responses -> Fragments \union {None}]
  /\ c.tables \in [Tables -> [shape : Shapes, text : Texts]]
-----------------------------------------------------------------------------
(* Slip: documentation is hashed as well. *)
with_documentation(f) == f

openapi_structure_only(f) == [f EXCEPT !.text = None]

(* Slip: only what the operations refer to themselves. *)
named_directly(refs, seed) == seed \intersect DOMAIN refs

(* The work-list loops: every name that references lead to from the seed. *)
closure(refs, seed) ==
  LET names[found \in SUBSET DOMAIN refs] ==
        LET more == found \union (DOMAIN refs \intersect UNION {refs[n] : n \in found})
        IN  IF more = found THEN found ELSE names[more]
  IN  names[seed \intersect DOMAIN refs]

expand_schema_closure(all, seed) ==
  closure([n \in {n \in Schemas : all[n] # None} |-> all[n].schemas], seed)

resolve_responses(all, seed) ==
  closure([n \in {n \in Responses : all[n] # None} |-> all[n].responses], seed)

paths_for_resource(c, r, methods) ==
  {o \in {r} \X methods : c.operations[o] # None}

openapi_slice_for_resource(c, r, methods) ==
  LET paths     == paths_for_resource(c, r, methods)
      responses == resolve_responses(c.responses, UNION {c.operations[o].responses : o \in paths})
      schemas   == expand_schema_closure(c.schemas,
                     (UNION {c.operations[o].schemas : o \in paths})
                       \union (UNION {c.responses[n].schemas : n \in responses}))
  IN  [paths     |-> [o \in paths |-> openapi_structure_only(c.operations[o])],
       schemas   |-> [n \in schemas |-> openapi_structure_only(c.schemas[n])],
       responses |-> [n \in responses |-> openapi_structure_only(c.responses[n])]]

compute_api_compatibility_hashes(c) ==
  [r \in Resources |-> openapi_slice_for_resource(c, r, Methods)]

compute_api_method_compatibility_hashes(c) ==
  [o \in Operations |-> IF c.operations[o] = None THEN None
                        ELSE openapi_slice_for_resource(c, o[1], {o[2]})]

(* A default that is computed by a function is not part of the schema. *)
table_contract_descriptor(table) == [table EXCEPT !.text = None]

compute_schema_compatibility_hashes(c) ==
  [t \in Tables |-> table_contract_descriptor(c.tables[t])]

compute_hashes(c) ==
  [api |-> compute_api_compatibility_hashes(c),
   api_method |-> compute_api_method_compatibility_hashes(c),
   schema |-> compute_schema_compatibility_hashes(c)]
-----------------------------------------------------------------------------
(* What a client of an operation depends on, said without the code's loops: the structure of
   what is in every set that has the operation and all that its members refer to. *)

Fragment(c, n) ==
  IF n \in Operations THEN c.operations[n]
  ELSE IF n \in Schemas THEN c.schemas[n] ELSE c.responses[n]

Defined(c) == {n \in Operations \union Schemas \union Responses : Fragment(c, n) # None}

References(c, n) == Defined(c) \intersect (Fragment(c, n).schemas \union Fragment(c, n).responses)

HasReferences(c, S) == \A n \in S : References(c, n) \subseteq S

Reached(c, o) ==
  {n \in Defined(c) :
     o \in Defined(c) /\ \A S \in SUBSET Defined(c) : o \in S /\ HasReferences(c, S) => n \in S}

DependsOn(c, o) == {<<n, [Fragment(c, n) EXCEPT !.text = None]>> : n \in Reached(c, o)}
=============================================================================
