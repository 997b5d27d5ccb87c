----------------------------- MODULE ErrorCodes -----------------------------
(***************************************************************************)
(* Application error codes among those of HTTP/3 (web-transport-proto,     *)
(* error.rs).  WebTransport hands an application all of u32; on the wire   *)
(* the codes live in a reserved range of HTTP/3 that leaves out every 31st *)
(* value.                                                                  *)
(***************************************************************************)
EXTENDS Integers

CONSTANTS ERROR_FIRST,   \* 0x52e4a40fa8db
          ERROR_LAST,    \* 0x52e5ac983162
          MaxCode        \* u32::MAX

\* How the two literals of the source belong together: the last code point is
\* the one of the largest u32, and HTTP/3's own codes lie below the first.
ASSUME CodesAssumption ==
  /\ ERROR_FIRST \in Nat \ {0} /\ MaxCode \in Nat
  /\ ERROR_LAST = ERROR_FIRST + MaxCode + MaxCode \div 30

Codes == 0 .. MaxCode
NoCode == -1             \* None

error_to_http3(code) == ERROR_FIRST + code + code \div 30

error_from_http3(code) ==
  IF code < ERROR_FIRST \/ code > ERROR_LAST THEN NoCode
  ELSE (code - ERROR_FIRST) - (code - ERROR_FIRST) \div 31
=============================================================================
