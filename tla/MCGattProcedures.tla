-------------------------- MODULE MCGattProcedures --------------------------
(* TLC instance of GattProcedures: every test, with and without GATT_CL,     *)
(* against five servers.                                                     *)
EXTENDS GattProcedures, TLC

MCTest == Tests

Svc(uuid, last) == Attribute("svc", uuid, last)
Inc == Attribute("inc", "INC_SVC", None)
Chr(uuid, value) == Attribute("chr", uuid, value)
Dsc(uuid) == Attribute("dsc", uuid, None)

\* Everything there is to find; the descriptors of a later characteristic have
\* the same types as those of the first.
Full ==
    1 :> Svc("SVC", 14) @@ 2 :> Inc
    @@ 3 :> Chr("CHR_READ_WRITE", 4) @@ 5 :> Dsc("DSC_READ_WRITE")
    @@ 6 :> Dsc("LONG_DSC_READ_WRITE")
    @@ 7 :> Chr("LONG_CHR_READ_WRITE", 8) @@ 9 :> Dsc("DSC_READ_WRITE")
    @@ 10 :> Chr("CHR_NOTIFY", 11) @@ 12 :> Dsc("CCC")
    @@ 13 :> Chr("CHR_NOTIFY", 14)

\* The first characteristic lacks one descriptor and a later one has it; the
\* notified characteristic has none.
Scattered ==
    1 :> Svc("SVC", 8)
    @@ 2 :> Chr("CHR_READ_WRITE", 3) @@ 4 :> Dsc("LONG_DSC_READ_WRITE")
    @@ 5 :> Chr("CHR_NOTIFY", 6)
    @@ 7 :> Chr("CHR_OTHER", 8)
    @@ 9 :> Svc("OTHER", 12)
    @@ 10 :> Chr("CHR_OTHER", 11) @@ 12 :> Dsc("CCC") @@ 13 :> Dsc("DSC_READ_WRITE")

\* A characteristic at the end of its service, with the descriptors in the next.
AtEnd ==
    1 :> Svc("OTHER", 3) @@ 2 :> Chr("CHR_READ_WRITE", 3)
    @@ 4 :> Svc("SVC", 6) @@ 5 :> Chr("CHR_READ_WRITE", 6)
    @@ 7 :> Svc("OTHER", 10) @@ 8 :> Chr("CHR_OTHER", 9) @@ 10 :> Dsc("DSC_READ_WRITE")

\* The next characteristic follows at once: there are no descriptors.
Adjacent ==
    1 :> Svc("SVC", 6) @@ 2 :> Chr("CHR_READ_WRITE", 3) @@ 4 :> Chr("CHR_OTHER", 5)
    @@ 6 :> Dsc("DSC_READ_WRITE")

MCServer == {Full, Scattered, AtEnd, Adjacent, EmptyDB}
=============================================================================
