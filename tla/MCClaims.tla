------------------------------ MODULE MCClaims ------------------------------
(***************************************************************************)
(* Two racks behind one address for TLC, and what they call themselves.    *)
(***************************************************************************)
EXTENDS Claims

MCOneAddress == [r \in Rack |-> CHOOSE a \in Address : TRUE]

\* Either both are called the same, as two of one image are, or each has a name
\* of its own.
MCHostnames ==
  {[r \in Rack |-> CHOOSE n \in Name : TRUE],
   CHOOSE f \in [Rack -> Name] : \A q, r \in Rack : f[q] = f[r] => q = r}

=============================================================================
