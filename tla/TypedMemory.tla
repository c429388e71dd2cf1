----------------------------- MODULE TypedMemory -----------------------------
(***************************************************************************)
(* What loads and stores of the IR promise: a store writes the bytes of    *)
(* its value and no other, a load reads the bytes that are there, extended *)
(* as it asks for.                                                         *)
(***************************************************************************)
EXTENDS ByteWords

VARIABLES
  irreg,    \* bytes of a register
  irop,     \* the access that is being done
  irmem,    \* memory
  irloaded  \* what the last access returned, until the next one begins

tvars == <<irreg, irop, irmem, irloaded>>

Extension == {"sext", "zext", "any"}

Nothing == [kind |-> "none", width |-> 0, align |-> 1, addr |-> 0, ext |-> "any", value |-> Zeros]

\* The accesses of a width and alignment that lie in memory.
Accesses(width, align) ==
  LET Addresses == {a \in Address : a % align = 0 /\ a + width <= MemSize}
  IN  [kind : {"load"}, width : {width}, align : {align}, addr : Addresses, ext : Extension,
       value : {Zeros}]
      \cup [kind : {"store"}, width : {width}, align : {align}, addr : Addresses, ext : {"any"},
            value : Values]

TInit == irreg \in {4, 8} /\ irop = Nothing /\ irmem \in Memory /\ irloaded = Zeros

\* A store is done at once.
Request ==
  /\ irop = Nothing
  /\ \E width, align \in {1, 2, 4, 8} : irop' \in Accesses(width, align)
  /\ irmem' = IF irop'.kind = "store" THEN Overwrite(irmem, irop'.addr, irop'.width, irop'.value)
              ELSE irmem
  /\ irloaded' = Zeros /\ UNCHANGED irreg

\* The bytes that an "any" extension adds are not defined.
Extended(value) ==
  LET last == irop.width - 1
  IN  /\ \A i \in 0 .. last : value[i] = irmem[irop.addr + i]
      /\ \A i \in last + 1 .. irreg - 1 :
           /\ irop.ext = "sext" => value[i] = SignFill(irmem[irop.addr + last])
           /\ irop.ext = "zext" => value[i] = {}

Respond ==
  /\ irop # Nothing
  /\ IF irop.kind = "load" THEN irloaded' \in Pair /\ Extended(irloaded') ELSE irloaded' = Zeros
  /\ irop' = Nothing /\ UNCHANGED <<irreg, irmem>>

TSpec == TInit /\ [][Request \/ Respond]_tvars
==============================================================================
