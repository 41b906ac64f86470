--------------------------------- MODULE Bus ---------------------------------
(***************************************************************************)
(* The system bus (system/bus.cpp): the table of attached devices and the  *)
(* decoding of addresses. Addresses and sizes count 32-bit words, so that  *)
(* those of the machine are numbers the model checker has.                 *)
(***************************************************************************)
EXTENDS SequencesExt, Integers

VARIABLE entries  \* devices_

(* DeviceEntry *)
Entry(name, base, size) == [name |-> name, base |-> base, size |-> size]
NoDevice == Entry("none", 0, 0)

BusTypeOK ==
    /\ \A i \in DOMAIN entries : DOMAIN entries[i] = DOMAIN NoDevice
    /\ \A i, j \in DOMAIN entries : i < j => entries[i].base <= entries[j].base

BusInit == entries = <<>>

(* Mutant of Attach: the table is left in the order of attachment. *)
AttachUnsorted(device) == entries' = Append(entries, device)

(* attach_device. As the sort that ends each call leaves the entries in    *)
(* the order of their bases, it only has to move the new one, to a place   *)
(* between those with a lower and those with a higher base.                *)
Attach(device) ==
    \E n \in 1..(Len(entries) + 1) :
        /\ \A i \in DOMAIN entries :
               IF i < n THEN entries[i].base <= device.base
                        ELSE device.base <= entries[i].base
        /\ entries' = InsertAt(entries, n, device)

(* The segments that show the first 512 MB of memory. *)
Kseg0 == \h20000000
Kseg2 == \h30000000
Segment == \h08000000

(* Mutant of ToPhysical: only KSEG0 is mapped. *)
ToPhysicalKseg0(a) ==
    IF a >= Kseg0 /\ a < Kseg0 + Segment THEN a % Segment ELSE a

(* to_physical *)
ToPhysical(a) == IF a >= Kseg0 /\ a < Kseg2 THEN a % Segment ELSE a

Covers(entry, a) == a >= entry.base /\ a < entry.base + entry.size

(* Mutant of FindDevice: the search ends at the first match. *)
FindDeviceFirst(a) ==
    LET physical == ToPhysical(a)
        best[i \in 0..Len(entries)] ==
            IF i = 0 THEN NoDevice
            ELSE IF Covers(entries[i], physical) /\ best[i - 1] = NoDevice
            THEN entries[i] ELSE best[i - 1]
    IN best[Len(entries)]

(* find_device: best[i] is the best match after i turns of the loop. Later *)
(* entries win over earlier ones with a lower base.                        *)
FindDevice(a) ==
    LET physical == ToPhysical(a)
        best[i \in 0..Len(entries)] ==
            IF i = 0 THEN NoDevice
            ELSE IF /\ Covers(entries[i], physical)
                    /\ \/ best[i - 1] = NoDevice
                       \/ entries[i].base >= best[i - 1].base
            THEN entries[i] ELSE best[i - 1]
    IN best[Len(entries)]
=============================================================================
