----------------------------- MODULE MCRelease -----------------------------
(* Release with a contract of two resources.  The operation of the first refers to schema s1,
   by name and through the response, and s1 to s2; the second has none of them at first. *)
EXTENDS Release, TLC

CONSTANTS r1, r2, get, s1, s2, ok, employees, old, new, plain,
  base, docs, nested, wider, both

Piece(shape, text, schemas, responses) ==
  [shape |-> shape, text |-> text, schemas |-> schemas, responses |-> responses]

Contract(text, shape, second) ==
  [operations |-> <<r1, get>> :> Piece(old, text, {}, {ok})
                  @@ <<r2, get>> :> Piece(old, plain, second, {}),
   schemas    |-> s1 :> Piece(old, plain, {s2}, {}) @@ s2 :> Piece(shape, plain, {}, {}),
   responses  |-> ok :> Piece(old, plain, {s1}, {}),
   tables     |-> employees :> [shape |-> old, text |-> text]]

(* As it is at first, with other documentation and another computed default, with a change in the schema that is referred to
   indirectly, with the second referring to it as well, and with both changes. *)
Definitions ==
  base :> Contract(plain, old, {}) @@ docs :> Contract(new, old, {})
    @@ nested :> Contract(plain, new, {}) @@ wider :> Contract(plain, old, {s2})
    @@ both :> Contract(plain, new, {s2})

(* A commit leaves the contract alone, makes one of the changes, or takes it back. *)
OneChange ==
  LET changes == {base} \X {docs, nested, wider} \union {nested, wider} \X {both}
  IN  changes \union {<<c[2], c[1]>> : c \in changes} \union {<<c, c>> : c \in Contracts}

Symmetry == Permutations(Developers)
=============================================================================
