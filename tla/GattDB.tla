-------------------------------- MODULE GattDB --------------------------------
(***************************************************************************)
(* The attribute database of stack/gatt.py (class GattDB): a map from      *)
(* handles to the attributes a discovery has found.  An attribute is a     *)
(* service, an included service, a characteristic or a descriptor; "last"  *)
(* is the end handle of a service and the value handle of a                *)
(* characteristic.  Its uuid decides which look-up finds it.               *)
(***************************************************************************)
EXTENDS Naturals

None == 0              \* no attribute has this handle
MaxHandle == 65535

Kind == {"svc", "inc", "chr", "dsc"}
Attribute(kind, uuid, last) == [kind |-> kind, uuid |-> uuid, last |-> last]

Lowest(handles) ==
    IF handles = {} THEN None
    ELSE CHOOSE h \in handles : \A g \in handles : h <= g

EmptyDB == [h \in {} |-> Attribute("svc", "", None)]

\* Mutant: the attributes are counted from zero.
AttrAddFromZero(db, hdl, attr) ==
    [h \in DOMAIN db \cup {hdl - 1} |-> IF h = hdl - 1 THEN attr ELSE db[h]]

attr_add(db, hdl, attr) ==
    [h \in DOMAIN db \cup {hdl} |-> IF h = hdl THEN attr ELSE db[h]]

OfKind(db, kind) == {h \in DOMAIN db : db[h].kind = kind}

find_by_uuid(db, kind, uuid) == Lowest({h \in OfKind(db, kind) : db[h].uuid = uuid})

find_svc_by_uuid(db, uuid) == find_by_uuid(db, "svc", uuid)
find_inc_svc_by_uuid(db, uuid) == find_by_uuid(db, "inc", uuid)
find_chr_by_uuid(db, uuid) == find_by_uuid(db, "chr", uuid)
find_dsc_by_uuid(db, uuid) == find_by_uuid(db, "dsc", uuid)

get_services(db) == OfKind(db, "svc")

\* Mutant: the next characteristic is not looked for.
FindNoEnd(db, hdl) == MaxHandle

\* The handles after hdl at which the look for its end stops: the one that
\* shows that there are no descriptors, and those that hold no descriptor.
Stops(db, hdl) ==
    {h \in DOMAIN db : h > hdl /\ (h = hdl + 2 \/ db[h].kind # "dsc")}

find_characteristic_end(db, hdl) ==
    LET stop == Lowest(Stops(db, hdl))
    IN  IF stop = None THEN MaxHandle
        ELSE IF stop = hdl + 2 THEN None
        ELSE stop - 1

=============================================================================
