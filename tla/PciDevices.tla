----------------------------- MODULE PciDevices -----------------------------
(***************************************************************************)
(* PCI_id and PCI_addr: their numbers as texts in documents.               *)
(*                                                                         *)
(* A text is a sequence of digits, hexadecimal ones included, with or      *)
(* without "0x" before it.  An address is the texts between its colons and *)
(* its dot; without a second colon it has no domain, without a dot no      *)
(* function, and without the first colon, or with three, no bus.           *)
(***************************************************************************)
EXTENDS Naturals, Sequences, FiniteSetsExt

CONSTANTS
    Numbers16,  \* some numbers of 16 bits, used as vendors and devices
    TypedTexts, \* what somebody may write into a document by hand
    NoText,     \* where there is no text
    UlongMax    \* the largest unsigned long

ASSUME NumbersAssumption == Numbers16 \subseteq 0..(2^16 - 1)
ASSUME TextsAssumption ==
    \A text \in TypedTexts : text.digits \in Seq(0..15) /\ text.hex \in BOOLEAN
ASSUME UlongAssumption == UlongMax \in Nat /\ 2^16 - 1 <= UlongMax

VARIABLES
    pciLeg,    \* "none", "id", "address": what is under way; "read", "rejected"
    written,   \* the PCI_id that was written, or nothing if it was by hand
    idDoc,     \* the document of a PCI_id
    addrDoc,   \* the document of a PCI_addr
    pciId,     \* the PCI_id that is loaded
    pciAddr    \* the PCI_addr that is loaded

pciVars == <<pciLeg, written, idDoc, addrDoc, pciId, pciAddr>>

Word(bits) == 0..(2^bits - 1)

PciTypeOK ==
    /\ pciLeg \in {"none", "id", "address", "read", "rejected"}
    /\ pciId \in [vendor : Word(16), device : Word(16)]
    /\ pciAddr \in [domain : Word(16), bus : Word(8), device : Word(8), funct : Word(8)]

-----------------------------------------------------------------------------
HexDigits(n, width) == [i \in 1..width |-> (n \div 16^(width - i)) % 16]

(* Fault: without "0x". *)
ToPlainHex(n) == [hex |-> FALSE, digits |-> HexDigits(n, 4)]

(* to_hex_string(n, 4), of a number of 16 bits. *)
ToHexString(n) == [hex |-> TRUE, digits |-> HexDigits(n, 4)]

EmitId(id) == [vendor |-> ToHexString(id.vendor), device |-> ToHexString(id.device)]

(* stoul reads up to the first character that is no digit in its base; for *)
(* the base 0 the text tells.                                              *)
BaseOf(text) ==
    IF text.hex THEN 16 ELSE IF text.digits # <<>> /\ text.digits[1] = 0 THEN 8 ELSE 10

ReadLength(text, base) ==
    Max({k \in 0..Len(text.digits) : \A i \in 1..k : text.digits[i] < base})

Stoul(text, base) ==
    LET number[k \in 0..Len(text.digits)] ==
            IF k = 0 THEN 0 ELSE number[k - 1] * base + text.digits[k]
    IN  number[ReadLength(text, base)]

(* invalid_argument and out_of_range. *)
StoulThrows(text, base) ==
    \/ ~text.hex /\ ReadLength(text, base) = 0
    \/ Stoul(text, base) > UlongMax

Narrowed(n, bits) == n % 2^bits

LoadIdMember(text) == Narrowed(Stoul(text, BaseOf(text)), 16)
IdMemberThrows(text) == StoulThrows(text, BaseOf(text))

(* load() of PCI_id: the vendor is read first and stays. *)
LoadId(id, doc) ==
    IF IdMemberThrows(doc.vendor) THEN id
    ELSE [vendor |-> LoadIdMember(doc.vendor),
          device |-> IF IdMemberThrows(doc.device) THEN id.device ELSE LoadIdMember(doc.device)]

-----------------------------------------------------------------------------
(* Fault: the domain is set only when there is one. *)
DomainIfAny(addr, doc) == IF doc.domain = NoText THEN addr.domain
                          ELSE Narrowed(Stoul(doc.domain, 16), 16)

LoadDomain(addr, doc) == IF doc.domain = NoText THEN 0 ELSE Narrowed(Stoul(doc.domain, 16), 16)

(* Without a dot the text of the device is read a second time. *)
FunctText(doc) == IF doc.funct = NoText THEN doc.device ELSE doc.funct

(* What can be read of an address, from left to right. *)
ReadParts(doc) ==
    LET texts == <<doc.domain, doc.bus, doc.device, FunctText(doc)>>
        names == <<"domain", "bus", "device", "funct">>
        failing == {i \in 1..4 : texts[i] # NoText /\ StoulThrows(texts[i], 16)}
    IN  IF doc.bus = NoText THEN {}
        ELSE {names[i] : i \in {j \in 1..4 : \A k \in failing : j < k}}

AddrParts == {"domain", "bus", "device", "funct"}

(* emit() writes a text without a second colon under the tag "addr", and   *)
(* load() looks for "pci-addr".                                            *)
EmitAddr == [domain |-> NoText, bus |-> NoText, device |-> NoText, funct |-> NoText]

(* load() of PCI_addr. *)
LoadAddr(addr, doc) ==
    [part \in AddrParts |->
        IF part \notin ReadParts(doc) THEN addr[part]
        ELSE CASE part = "domain" -> LoadDomain(addr, doc)
               [] part = "bus" -> Narrowed(Stoul(doc.bus, 16), 8)
               [] part = "device" -> Narrowed(Stoul(doc.device, 16), 8)
               [] part = "funct" -> Narrowed(Stoul(FunctText(doc), 16), 8)]

-----------------------------------------------------------------------------
NoDoc == <<>>

(* The objects hold what was read before. *)
PciInit ==
    /\ pciLeg = "none"
    /\ written = NoDoc /\ idDoc = NoDoc /\ addrDoc = NoDoc
    /\ pciId = [vendor |-> 1, device |-> 2]
    /\ pciAddr = [domain |-> 1, bus |-> 2, device |-> 3, funct |-> 4]

WriteId(id) ==
    /\ pciLeg = "none"
    /\ written' = id /\ idDoc' = EmitId(id)
    /\ pciLeg' = "id"
    /\ UNCHANGED <<addrDoc, pciId, pciAddr>>

TypeId(vendor, device) ==
    /\ pciLeg = "none"
    /\ idDoc' = [vendor |-> vendor, device |-> device]
    /\ pciLeg' = "id"
    /\ UNCHANGED <<written, addrDoc, pciId, pciAddr>>

(* An address of this object or of another, or one that was typed. *)
SendAddress(doc) ==
    /\ pciLeg = "none"
    /\ addrDoc' = doc
    /\ pciLeg' = "address"
    /\ UNCHANGED <<written, idDoc, pciId, pciAddr>>

ReadId ==
    /\ pciLeg = "id"
    /\ pciId' = LoadId(pciId, idDoc)
    /\ pciLeg' = IF IdMemberThrows(idDoc.vendor) \/ IdMemberThrows(idDoc.device)
                 THEN "rejected" ELSE "read"
    /\ UNCHANGED <<written, idDoc, addrDoc, pciAddr>>

ReadAddress ==
    /\ pciLeg = "address"
    /\ pciAddr' = LoadAddr(pciAddr, addrDoc)
    /\ pciLeg' = IF ReadParts(addrDoc) = AddrParts THEN "read" ELSE "rejected"
    /\ UNCHANGED <<written, idDoc, addrDoc, pciId>>

PciNext ==
    \/ \E vendor, device \in Numbers16 : WriteId([vendor |-> vendor, device |-> device])
    \/ \E vendor, device \in TypedTexts : TypeId(vendor, device)
    \/ SendAddress(EmitAddr)
    \/ \E domain, funct \in TypedTexts \cup {NoText}, bus, device \in TypedTexts :
          SendAddress([domain |-> domain, bus |-> bus, device |-> device, funct |-> funct])
    \/ ReadId
    \/ ReadAddress

PciSpec == PciInit /\ [][PciNext]_pciVars

-----------------------------------------------------------------------------
(* The identifiers of a device arrive as they were written, and those that *)
(* look hexadecimal without saying so do not pass for others: what begins  *)
(* with a letter is rejected.                                              *)
IdsArrive ==
    /\ pciLeg \in {"read", "rejected"} /\ written # NoDoc =>
          pciLeg = "read" /\ pciId = written
    /\ pciLeg = "read" /\ idDoc # NoDoc =>
          \A text \in {idDoc.vendor, idDoc.device} :
              text.hex \/ (text.digits # <<>> /\ text.digits[1] < 10)

(* An address that is read is wholly that of its document: no part of it   *)
(* is left from an earlier address, and in particular the short form means *)
(* domain 0.                                                               *)
AddressIsNew ==
    pciLeg = "read" /\ addrDoc # NoDoc =>
        LET fresh == [part \in AddrParts |-> 0] IN pciAddr = LoadAddr(fresh, addrDoc)
=============================================================================
