----------------------------- MODULE Asn1Codec ------------------------------
(***************************************************************************)
(* The packet codec (helpers/asn1_*.cpp): what each field of a packet      *)
(* becomes on the wire, and what it becomes again.  libtasn1 and Arrow are *)
(* taken to give back the octets they were given, an INTEGER in its        *)
(* shortest two's complement form.  A sequence of octets stands for a      *)
(* string, a byte vector, or the Arrow stream of a table.                  *)
(*                                                                         *)
(* An operator defined directly before one whose name it extends is that   *)
(* operator with a plausible bug in it; no specification uses it.          *)
(***************************************************************************)
EXTENDS Integers, SequencesExt, FiniteSetsExt

CONSTANT Width  \* the bytes of an int (4 in the code)

ASSUME WidthAssumption == Width \in Nat \ {0}

-----------------------------------------------------------------------------
(* The fields of each packet type and the kinds of their values, as the    *)
(* encoder writes them and as the decoder reads them.                      *)

Written == [
  standard |-> [payload |-> "string"],
  file |-> [filePath |-> "string", start |-> "int", end |-> "int", payload |-> "table"],
  viewportRequest |-> [xStart |-> "int", xEnd |-> "int", yStart |-> "int", yEnd |-> "int"],
  viewport |-> [xStart |-> "int", xEnd |-> "int", yStart |-> "int", yEnd |-> "int",
                payload |-> "table"],
  tqlQuery |-> [query |-> "string"],
  error |-> [code |-> "int", message |-> "string"],
  universal |-> [type |-> "int", bytes |-> "bytes"],
  ls |-> [directory |-> "string"],
  lsSolution |-> [directoryItems |-> "strings"]]

Read == [
  standard |-> [payload |-> "string"],
  file |-> [filePath |-> "string", start |-> "int", end |-> "int", payload |-> "table"],
  viewportRequest |-> [xStart |-> "int", xEnd |-> "int", yStart |-> "int", yEnd |-> "int"],
  viewport |-> [xStart |-> "int", xEnd |-> "int", yStart |-> "int", yEnd |-> "int",
                payload |-> "table"],
  tqlQuery |-> [query |-> "string"],
  error |-> [code |-> "int", message |-> "string"],
  universal |-> [type |-> "int", bytes |-> "bytes"],
  ls |-> [directory |-> "string"],
  lsSolution |-> [directoryItems |-> "strings"]]

\* The ASN.1 module the definitions tree is built from, and what a field of each kind
\* is written as.
Schema == [
  standard |-> [payload |-> "OCTET STRING"],
  file |-> [filePath |-> "OCTET STRING", start |-> "INTEGER", end |-> "INTEGER",
            payload |-> "OCTET STRING"],
  viewportRequest |-> [xStart |-> "INTEGER", xEnd |-> "INTEGER",
                       yStart |-> "INTEGER", yEnd |-> "INTEGER"],
  viewport |-> [xStart |-> "INTEGER", xEnd |-> "INTEGER",
                yStart |-> "INTEGER", yEnd |-> "INTEGER", payload |-> "OCTET STRING"],
  tqlQuery |-> [query |-> "OCTET STRING"],
  error |-> [code |-> "INTEGER", message |-> "OCTET STRING"],
  universal |-> [type |-> "INTEGER", bytes |-> "OCTET STRING"],
  ls |-> [directory |-> "OCTET STRING"],
  lsSolution |-> [directoryItems |-> "SEQUENCE OF"]]

Asn1TypeOfOctets(kind) == IF kind = "int" THEN "INTEGER" ELSE "OCTET STRING"
Asn1Type(kind) ==
  CASE kind = "int" -> "INTEGER" [] kind = "strings" -> "SEQUENCE OF" [] OTHER -> "OCTET STRING"

FitsSchema(type) ==
  \A f \in DOMAIN Schema[type] :
    f \in DOMAIN Written[type] /\ Asn1Type(Written[type][f]) = Schema[type][f]

\* The copy of an empty vector that reaches the encoder has no memory: data() is null,
\* and asn1_write_value refuses a null value.
EmptyBytes(payload) ==
  \E f \in DOMAIN Written[payload.type] :
    Written[payload.type][f] = "bytes" /\ payload.fields[f] = <<>>

\* A value that cannot be written is logged and left out; a tree in which one is
\* missing has no DER coding, and encode() throws.
Encodable(payload) == FitsSchema(payload.type) /\ ~EmptyBytes(payload)

-----------------------------------------------------------------------------
(* Integers: written as DER, read byte by byte into an int.                *)

\* How many numbers k bytes can hold.
Weight[k \in Nat] == IF k = 0 THEN 1 ELSE 256 * Weight[k - 1]
Half(k) == Weight[k] \div 2
Fits(n, k) == -Half(k) <= n /\ n < Half(k)

DerLength(n) == CHOOSE k \in 1..Width : Fits(n, k) /\ \A j \in 1..(k - 1) : ~Fits(n, j)
DerInteger(n) == [i \in 1..DerLength(n) |-> (n \div Weight[DerLength(n) - i]) % 256]

\* An int keeps Width bytes.
WrappedUnsigned(n) == n
Wrapped(n) == IF n < Half(Width) THEN n ELSE n - 2 * Half(Width)

\* The sign of a short INTEGER is not extended.
BytesToInt(bytes) ==
  LET result[index \in 0..Len(bytes)] ==
        IF index = 0 THEN 0 ELSE 256 * result[index - 1] + bytes[index]
  IN  Wrapped(result[Len(bytes)])

-----------------------------------------------------------------------------
(* The fields of a packet.                                                 *)

\* A C string ends at its first NUL.
CString(string) ==
  LET nuls == {i \in DOMAIN string : string[i] = 0}
  IN  IF nuls = {} THEN string ELSE SubSeq(string, 1, Min(nuls) - 1)

\* The elements of a vector of strings are written with their sizes.
EncodeFieldAsCString(kind, value) ==
  CASE kind = "int" -> DerInteger(value)
    [] kind = "string" -> CString(value)
    [] kind = "strings" -> [i \in DOMAIN value |-> CString(value[i])]
    [] OTHER -> value
EncodeField(kind, value) ==
  CASE kind = "int" -> DerInteger(value)
    [] kind = "string" -> CString(value)
    [] OTHER -> value

DecodeField(kind, value) == IF kind = "int" THEN BytesToInt(value) ELSE value

Encode(payload, id) ==
  [id |-> DerInteger(id), type |-> payload.type,
   fields |-> [f \in DOMAIN Written[payload.type] |->
                 EncodeField(Written[payload.type][f], payload.fields[f])]]

Decode(der) ==
  [id |-> BytesToInt(der.id), type |-> der.type,
   fields |-> [f \in DOMAIN Read[der.type] |->
                 DecodeField(Read[der.type][f], der.fields[f])]]

\* The packets the program's types can hold.
IsPacket(packet) ==
  /\ packet = [id |-> packet.id, type |-> packet.type, fields |-> packet.fields]
  /\ packet.type \in DOMAIN Written
  /\ packet.fields = [f \in DOMAIN Written[packet.type] |-> packet.fields[f]]
  /\ packet.id \in Int /\ Fits(packet.id, Width)
  /\ \A f \in DOMAIN Written[packet.type] :
       LET kind == Written[packet.type][f] IN
       /\ kind = "int" => packet.fields[f] \in Int /\ Fits(packet.fields[f], Width)
       /\ kind = "string" => packet.fields[f] \in Seq(0..255)

\* The Arrow writer or reader may refuse a table.
HasTable(type) == \E f \in DOMAIN Written[type] : Written[type][f] = "table"

-----------------------------------------------------------------------------
(* What the codec preserves.                                               *)

\* A negative int must need all its bytes.
PreservedInt(n) == n >= 0 \/ ~Fits(n, Width - 1)
PreservedString(string) == \A i \in DOMAIN string : string[i] # 0

Preserved(packet) ==
  /\ PreservedInt(packet.id)
  /\ \A f \in DOMAIN packet.fields :
       LET kind == Written[packet.type][f] IN
       /\ kind = "int" => PreservedInt(packet.fields[f])
       /\ kind = "string" => PreservedString(packet.fields[f])

=============================================================================
