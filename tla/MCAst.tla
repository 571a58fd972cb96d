------------------------------- MODULE MCAst --------------------------------
(***************************************************************************)
(* The functions whose AST, CFG and PDG TLC builds one after the other.      *)
(***************************************************************************)
EXTENDS MCPdg, AstBuilder

\* Expressions of every arity, among blocks and ifs.
Operations == Family(3, 6, {"Nop", "get", "put", "binary", "store", "select", "Call",
                            "block", "if"})
\* Jumps with operands around them, and dead code after them.
Jumps  == Family(3, 6, {"get", "put", "binary", "block", "if", "br", "Return",
                        "Unreachable"})
Tables == Family(3, 6, {"get", "block", "br_table", "Return"})
\* Arguments made by calls, and by blocks and ifs with results.
Arguments == Family(4, 6, {"get", "Call", "binary", "block", "if"})

Trees == {Operations, Jumps, Tables, Arguments, TypedLoops}
=============================================================================
