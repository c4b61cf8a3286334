----------------------------- MODULE MCStartUp -----------------------------
(* A machine with at most three regions; see StartUp.cfg.                     *)
EXTENDS StartUp

Table(sig, valid, region) == [sig |-> sig, valid |-> valid, region |-> region]

\* One machine for each thing that may be wrong, and each way to enable ACPI.
Good == [rsdp |-> <<"genuine">>, extended |-> FALSE, sdt |-> Table("RSDT", TRUE, 2),
         tables |-> <<Table("FACP", TRUE, 1)>>, smi |-> TRUE, pm1b |-> FALSE, floating |-> FALSE, s5 |-> "good"]

Machines == { Good,
    [Good EXCEPT !.pm1b = TRUE, !.tables = <<Table("FACP", FALSE, 1), Table("FACP", TRUE, 2)>>],
    [Good EXCEPT !.tables = <<Table("FACP", TRUE, 1), Table("FACP", FALSE, 1)>>],
    [Good EXCEPT !.tables = <<Table("APIC", TRUE, 1)>>],
    [Good EXCEPT !.rsdp = <<>>],
    [Good EXCEPT !.rsdp = <<"genuine", "stale">>],
    [Good EXCEPT !.sdt = Table("RSDT", FALSE, 2)],
    [Good EXCEPT !.extended = TRUE, !.sdt = Table("XSDT", TRUE, 2)],
    [Good EXCEPT !.smi = FALSE],
    [Good EXCEPT !.floating = TRUE],
    [Good EXCEPT !.s5 = "invalid_dsdt"],
    [Good EXCEPT !.s5 = "parse_error", !.pm1b = TRUE] }
=============================================================================
