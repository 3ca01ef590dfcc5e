--------------------------- MODULE HostAddresses ----------------------------
(***************************************************************************)
(* The static helpers of TcpNetworking that ask the host for its network   *)
(* interfaces or judge the text of an address, loop by loop, and the test  *)
(* server's start, which relies on two of them.                            *)
(*                                                                         *)
(* Every getifaddrs() finds whatever interfaces there are at that moment.  *)
(* An address is a model value.  A text is a sequence of octets, as        *)
(* getline() splits it at its dots; an octet is a sequence of characters,  *)
(* of which a digit stands for itself.                                     *)
(*                                                                         *)
(* An operator defined directly before one whose name it extends is that   *)
(* operator with a plausible bug in it; no specification uses it.          *)
(***************************************************************************)
EXTENDS Integers, SequencesExt, FiniteSetsExt

CONSTANTS
  Interface,   \* the interface the server is to use
  Lists,       \* the interface lists getifaddrs() may return
  NoAddress,   \* the empty address, or none
  Texts,       \* the texts isValidIpV4() is asked about
  IntMax       \* the largest int (2^31 - 1 in the code)

ASSUME IntMaxAssumption == IntMax \in Nat /\ IntMax > 255
ASSUME ListsAssumption == \A l \in Lists : l \in Seq(ToSet(l))

Digits == 0..9
Letter == 10
Minus == 11
Plus == 12
Space == 13
Other == 14

ASSUME TextsAssumption == \A t \in Texts : t \in Seq(Seq(0..Other))

VARIABLES
  pc,      \* the function that runs, or how the call or the server has ended
  list,    \* the interfaces the last getifaddrs() found
  at,      \* the loop's position in the list, or in the text
  result,  \* what the function has found so far
  text     \* the text isValidIpV4() judges

vars == <<pc, list, at, result, text>>

Init ==
  /\ \/ pc \in {"validate", "broadcast"} /\ text = <<>>
     \/ pc = "octets" /\ text \in Texts
  /\ list = <<>> /\ at = 0 /\ result = NoAddress

-----------------------------------------------------------------------------
(* The three walks through the list of interfaces.                         *)

\* getifaddrs() and the loop's start.
Enumerate(caller) ==
  /\ pc = caller /\ at = 0
  /\ list' \in Lists
  /\ at' = 1
  /\ UNCHANGED <<pc, result, text>>

\* getifaddrs() fails: two functions return the empty address, and isValidInterface()
\* reads a pointer nothing has set.
EnumerateFails ==
  /\ at = 0
  /\ \/ pc = "broadcast" /\ pc' = "returned"
     \/ pc = "lookup" /\ pc' = "bind"
     \/ pc = "validate" /\ pc' \in {"lookup", "rejected", "crashed"}
  /\ list' = <<>>
  /\ UNCHANGED <<at, result, text>>

Walking(caller) == pc = caller /\ at \in DOMAIN list
Walked(caller) == pc = caller /\ at > Len(list)
Finish(next) == pc' = next /\ at' = 0

\* isValidInterface() looks for a link-level entry, and looks at all of them.
IsLink(entry) == entry.family = "packet" /\ entry.name = Interface

Validate ==
  \/ /\ Walking("validate")
     /\ result' = IF IsLink(list[at]) THEN Interface ELSE result
     /\ at' = at + 1
     /\ UNCHANGED <<pc, list, text>>
  \/ /\ Walked("validate")
     /\ Finish(IF result = Interface THEN "lookup" ELSE "rejected")
     /\ result' = NoAddress
     /\ UNCHANGED <<list, text>>

\* getLocalIpAddress() takes the interface's first IPv4 address.
IsLocal(entry) == entry.family = "inet" /\ entry.name = Interface

LookupLast ==
  \/ /\ Walking("lookup")
     /\ result' = IF IsLocal(list[at]) THEN list[at].ip ELSE result
     /\ at' = at + 1
     /\ UNCHANGED <<pc, list, text>>
  \/ /\ Walked("lookup")
     /\ Finish("bind")
     /\ UNCHANGED <<list, result, text>>
Lookup ==
  \/ /\ Walking("lookup") /\ ~IsLocal(list[at])
     /\ at' = at + 1
     /\ UNCHANGED <<pc, list, result, text>>
  \/ /\ Walking("lookup") /\ IsLocal(list[at])
     /\ result' = list[at].ip
     /\ Finish("bind")
     /\ UNCHANGED <<list, text>>
  \/ /\ Walked("lookup")
     /\ Finish("bind")
     /\ UNCHANGED <<list, result, text>>

\* getBroadcastIpAddress() takes the first there is; an entry has one if it is up,
\* broadcasts, and is no loopback.
Broadcasts(entry) == entry.family = "inet" /\ entry.broadcast # NoAddress

Broadcast ==
  \/ /\ Walking("broadcast") /\ ~Broadcasts(list[at])
     /\ at' = at + 1
     /\ UNCHANGED <<pc, list, result, text>>
  \/ /\ Walking("broadcast") /\ Broadcasts(list[at])
     /\ result' = list[at].broadcast
     /\ Finish("returned")
     /\ UNCHANGED <<list, text>>
  \/ /\ Walked("broadcast")
     /\ Finish("returned")
     /\ UNCHANGED <<list, result, text>>

\* An address may be gone by now, or taken.  Having none is no obstacle: inet_addr("") is
\* 255.255.255.255, which a socket may be bound to.
Bind ==
  /\ pc = "bind"
  /\ pc' \in {"serving", "bindFailed"}
  /\ UNCHANGED <<list, at, result, text>>

-----------------------------------------------------------------------------
(* isValidIpV4.                                                            *)

Size(t) == Len(t) - 1 + Len(FlattenSeq(t))

\* stoi(): white space, a sign, digits, and whatever follows them.
Blanks(octet) ==
  Max({k \in 0..Len(octet) : \A i \in 1..k : octet[i] = Space})
Sign(octet) ==
  IF Blanks(octet) < Len(octet) /\ octet[Blanks(octet) + 1] \in {Minus, Plus} THEN 1 ELSE 0
Start(octet) == Blanks(octet) + Sign(octet) + 1
Numeral(octet) ==
  SubSeq(octet, Start(octet),
         Max({k \in (Start(octet) - 1)..Len(octet) :
                \A i \in Start(octet)..k : octet[i] \in Digits}))
Magnitude(octet) ==
  LET value[k \in 0..Len(Numeral(octet))] ==
        IF k = 0 THEN 0 ELSE 10 * value[k - 1] + Numeral(octet)[k]
  IN  value[Len(Numeral(octet))]
Value(octet) ==
  IF Sign(octet) = 1 /\ octet[Start(octet) - 1] = Minus THEN -Magnitude(octet)
                                                        ELSE Magnitude(octet)

NoInt(octet) ==
  Numeral(octet) = <<>> \/ Value(octet) > IntMax \/ Value(octet) < -IntMax - 1

\* What the loop's body makes of an octet.
OctetVerdictUnpadded(octet) ==
  IF \E i \in DOMAIN octet : octet[i] = Letter THEN "invalid"
  ELSE IF NoInt(octet) THEN "throws"
  ELSE IF Value(octet) > 255 THEN "invalid" ELSE "good"
OctetVerdict(octet) ==
  IF Len(octet) > 1 /\ octet[1] = 0 THEN "invalid"
  ELSE IF \E i \in DOMAIN octet : octet[i] = Letter THEN "invalid"
  ELSE IF NoInt(octet) THEN "throws"
  ELSE IF Value(octet) > 255 THEN "invalid" ELSE "good"

CheckSize ==
  /\ pc = "octets" /\ at = 0
  /\ IF Size(text) < 7 THEN pc' = "invalid" /\ UNCHANGED at ELSE at' = 1 /\ UNCHANGED pc
  /\ UNCHANGED <<list, result, text>>

CheckOctet ==
  /\ pc = "octets" /\ at \in DOMAIN text
  /\ IF OctetVerdict(text[at]) = "good" THEN at' = at + 1 /\ UNCHANGED pc
                                        ELSE pc' = OctetVerdict(text[at]) /\ UNCHANGED at
  /\ UNCHANGED <<list, result, text>>

CheckCount ==
  /\ pc = "octets" /\ at > Len(text)
  /\ pc' = IF at - 1 = 4 THEN "valid" ELSE "invalid"
  /\ UNCHANGED <<list, at, result, text>>

-----------------------------------------------------------------------------
Next ==
  \/ \E caller \in {"validate", "lookup", "broadcast"} : Enumerate(caller)
  \/ EnumerateFails
  \/ Validate \/ Lookup \/ Broadcast \/ Bind
  \/ CheckSize \/ CheckOctet \/ CheckCount

Spec == Init /\ [][Next]_vars

-----------------------------------------------------------------------------
(* Properties.                                                             *)

\* The address of the first entry that passes a test.
FirstOf(Passes(_), address(_)) ==
  LET found == {i \in DOMAIN list : Passes(list[i])} IN
  IF found = {} THEN NoAddress ELSE address(list[Min(found)])

\* What the server binds to is the first IPv4 address its interface has, and no other
\* interface's; it is none only if that interface has none, which the validation of the
\* interface does not exclude.  A broadcast address is the first one there is.
AddressesRight ==
  /\ pc \in {"serving", "bindFailed", "bind"} =>
       result = FirstOf(IsLocal, LAMBDA entry : entry.ip)
  /\ pc = "returned" => result = FirstOf(Broadcasts, LAMBDA entry : entry.broadcast)

\* A dotted quad, by the book.
Quad(t) ==
  /\ Len(t) = 4
  /\ \A i \in 1..4 : /\ t[i] # <<>> /\ \A j \in DOMAIN t[i] : t[i][j] \in Digits
                     /\ t[i][1] = 0 => Len(t[i]) = 1
                     /\ Magnitude(t[i]) <= 255
Plain(t) == \A i \in DOMAIN t : \A j \in DOMAIN t[i] : t[i][j] \in Digits \cup {Letter}

\* isValidIpV4() accepts every dotted quad, and of the texts of digits, letters and
\* dots no other; it throws instead of answering only where stoi() finds no int.
VerdictsRight ==
  /\ Quad(text) => pc \in {"octets", "valid"}
  /\ pc = "valid" /\ Plain(text) => Quad(text)
  /\ pc = "throws" => \E i \in DOMAIN text : NoInt(text[i])

=============================================================================
