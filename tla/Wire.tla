---------------------------------- MODULE Wire ----------------------------------
(*******************************************************************************)
(* The wire format (protocol/protocol.go): an operation is written as a list   *)
(* of items, each a tag, a 16-bit length and a value, behind a header that     *)
(* announces the length of the whole.  Lengths are the real ones; values are   *)
(* abstract.                                                                   *)
(*******************************************************************************)
EXTENDS Integers, Sequences, Functions

CONSTANTS
    Nil,        \* a nil slice, an SKI or digest of zeros
    Panic       \* the program panics

MaxUint16 == 65535
headerSize == 8
paddedLength == 1024

(* The fields of an Operation in the order in which they are written; the tag  *)
(* of an item is the name of its field.  TagPadding belongs to no field.       *)
Fields ==
    <<"Opcode", "Payload", "Extra", "SKI", "Digest", "ClientIP", "ServerIP",
      "SNI", "CertID", "CustomFuncName", "JaegerSpan">>
TagPadding == "Padding"

(* A value of a certain length.                                                *)
Blob(length, val) == [len |-> length, val |-> val]
Empty == Blob(0, Nil)

ASSUME WireAssumption == Panic \notin Nat /\ Nil # Blob(4, "IPv4")

(* The zero value of Operation.  A field of type []byte or string that is empty *)
(* is the same whether nil or not, except for the addresses and JaegerSpan.    *)
Zero ==
    [f \in Range(Fields) |->
        CASE f = "Opcode" -> Blob(1, Nil)
          [] f = "SKI" -> Blob(20, Nil)
          [] f = "Digest" -> Blob(32, Nil)
          [] f \in {"ClientIP", "ServerIP", "JaegerSpan"} -> Nil
          [] OTHER -> Empty]

IPFields == {"ClientIP", "ServerIP"}
SliceFields == {"Payload", "Extra", "SNI", "CertID", "CustomFuncName"}

(* What an Operation may hold: slices and strings of any length, an SKI and a  *)
(* digest of their fixed sizes, addresses of the two kinds.                    *)
IsBlob(b) == b = Blob(b.len, b.val) /\ b.len \in Nat

IsField(f, b) ==
    /\ f = "Opcode" => IsBlob(b) /\ b.len = 1
    /\ f = "SKI" => IsBlob(b) /\ b.len = 20
    /\ f = "Digest" => IsBlob(b) /\ b.len = 32
    /\ f \in IPFields /\ b # Nil =>
          IsBlob(b) /\ b.len \in (IF b.val = "IPv4" THEN {4, 16} ELSE {16})
    /\ f = "JaegerSpan" /\ b # Nil => IsBlob(b)
    /\ f \in SliceFields => IsBlob(b) /\ (b.len = 0 => b = Empty)

IsOperation(o) == \A f \in Range(Fields) : IsField(f, o[f])

(* net.IP.To4: an IPv4 address may be held in 16 bytes.                        *)
To4(ip) == IF ip.val = "IPv4" THEN Blob(4, "IPv4") ELSE Nil
--------------------------------------------------------------------------------
(* Mutant of Present: an empty JaegerSpan is left out.                         *)
PresentByLength(o, f) ==
    \/ f = "Opcode"
    \/ f \in {"SKI", "Digest"} /\ o[f].val # Nil
    \/ f \in IPFields /\ o[f] # Nil
    \/ f \in SliceFields \cup {"JaegerSpan"} /\ o[f] # Nil /\ o[f].len > 0

(* Which fields are written.                                                   *)
Present(o, f) ==
    \/ f = "Opcode"
    \/ f \in {"SKI", "Digest"} /\ o[f].val # Nil
    \/ f \in IPFields \cup {"JaegerSpan"} /\ o[f] # Nil
    \/ f \in SliceFields /\ o[f].len > 0

(* tlvLen; it panics when the length does not fit with the tag before it.      *)
tlvLen(datalen) == IF datalen > MaxUint16 - 3 THEN Panic ELSE 3 + datalen

(* The closure add of Bytes: a sum that wraps is noticed.                      *)
AddLen(length, l) ==
    IF length = Panic \/ l = Panic THEN Panic
    ELSE LET sum == (l + length) % (MaxUint16 + 1)
         IN  IF sum < length THEN Panic ELSE sum

(* The length of a field in Bytes.                                             *)
FieldLen(o, f) ==
    IF f \in IPFields THEN IF To4(o[f]) # Nil THEN 4 ELSE 16 ELSE o[f].len

(* The number of padding bytes behind a body of a certain length.              *)
PaddingLen(length) ==
    LET left == paddedLength - (length + headerSize + 3)
    IN  IF left < 0 THEN 0 ELSE left

(* Mutant of Bytes: a sum that wraps is not noticed.                           *)
BytesWraps(o) ==
    LET Sum(length, l) == IF l = Panic THEN length ELSE (l + length) % (MaxUint16 + 1)
        sum[n \in 0 .. Len(Fields)] ==
            IF n = 0 THEN 0
            ELSE IF Present(o, Fields[n]) THEN Sum(sum[n - 1], tlvLen(FieldLen(o, Fields[n])))
            ELSE sum[n - 1]
        length == sum[Len(Fields)]
    IN  IF length + headerSize < paddedLength
        THEN AddLen(length, tlvLen(PaddingLen(length)))
        ELSE length

(* The sum that Bytes has come to after a number of fields.                    *)
FieldLens(o) ==
    LET sum[n \in 0 .. Len(Fields)] ==
            IF n = 0 THEN 0
            ELSE IF Present(o, Fields[n]) THEN AddLen(sum[n - 1], tlvLen(FieldLen(o, Fields[n])))
            ELSE sum[n - 1]
    IN  sum

(* Operation.Bytes.                                                            *)
Bytes(o) ==
    LET length == FieldLens(o)[Len(Fields)]
    IN  IF length # Panic /\ length + headerSize < paddedLength
        THEN AddLen(length, tlvLen(PaddingLen(length)))
        ELSE length

Item(tag, blob) == [tag |-> tag, len |-> blob.len, val |-> blob.val]

(* The value that is written for a field.                                      *)
Encoded(o, f) ==
    IF f \in IPFields /\ To4(o[f]) # Nil THEN To4(o[f]) ELSE o[f]

(* The number of bytes of a list of items.                                     *)
Sizes(items) ==
    LET sum[i \in 0 .. Len(items)] == IF i = 0 THEN 0 ELSE sum[i - 1] + 3 + items[i].len
    IN  sum
Size(items) == Sizes(items)[Len(items)]

(* The items that MarshalBinary has written after a number of fields.          *)
Written(o) ==
    LET items[n \in 0 .. Len(Fields)] ==
            IF n = 0 THEN <<>>
            ELSE IF Present(o, Fields[n])
                 THEN Append(items[n - 1], Item(Fields[n], Encoded(o, Fields[n])))
            ELSE items[n - 1]
    IN  items

(* Operation.MarshalBinary.                                                    *)
Marshal(o) ==
    LET items == Written(o)[Len(Fields)]
        length == Size(items)
    IN  IF length + headerSize < paddedLength
        THEN Append(items, Item(TagPadding, Blob(PaddingLen(length), Nil)))
        ELSE items
--------------------------------------------------------------------------------
(* UnmarshalBinary: fields whose value is refused.                             *)
Malformed(item) ==
    \/ item.tag = "Opcode" /\ item.len # 1
    \/ item.tag \in IPFields /\ item.len \notin {4, 16}

(* An SKI or digest of the wrong size is left out without an error.            *)
Ignored(item) ==
    \/ item.tag = "SKI" /\ item.len # 20
    \/ item.tag = "Digest" /\ item.len # 32

Known == Range(Fields) \cup {TagPadding}

(* The list is refused when a value is malformed or a known tag occurs twice.  *)
Refused(items) ==
    \/ \E i \in DOMAIN items : Malformed(items[i])
    \/ \E i, j \in DOMAIN items :
          i # j /\ items[i].tag \in Known /\ items[i].tag = items[j].tag

(* Decoding starts from the zero Operation; unknown tags are passed over.      *)
Unmarshal(items) ==
    [f \in Range(Fields) |->
        IF \E i \in DOMAIN items : items[i].tag = f /\ ~Ignored(items[i])
        THEN LET i == CHOOSE i \in DOMAIN items : items[i].tag = f
             IN  Blob(items[i].len, items[i].val)
        ELSE Zero[f]]

(* NewPacket: the header is filled in from Bytes, the body from MarshalBinary. *)
NewPacket(o) == [Length |-> Bytes(o), items |-> Marshal(o)]

(* Packet.ReadFrom: as many bytes are read as the header announces; if that is *)
(* not where the body ends there is no telling what is read.                   *)
ReadError(p) == p.Length # Size(p.items) \/ Refused(p.items)
ReadFrom(p) == Unmarshal(p.items)
--------------------------------------------------------------------------------
(* The same operation, for whoever uses it: an IPv4 address may be held in 4   *)
(* or in 16 bytes.                                                             *)
SameOperation(o, p) ==
    \A f \in Range(Fields) :
        \/ o[f] = p[f]
        \/ /\ f \in IPFields /\ o[f] # Nil /\ p[f] # Nil
           /\ o[f].val = "IPv4" /\ p[f].val = "IPv4"
================================================================================
