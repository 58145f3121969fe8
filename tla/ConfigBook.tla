------------------------------ MODULE ConfigBook ------------------------------
(***************************************************************************)
(* The documents of a configuration, told by one record of what they are   *)
(* made of: the names of their modules, the pages, the settings a root may *)
(* have, and what stands for a document that is not there.                 *)
(***************************************************************************)
Book(lib) ==
    INSTANCE ConfigDocs WITH
        Names <- lib.names, Pages <- lib.pages, PageOf <- lib.pageOf,
        DefaultPages <- lib.defaults, Rejected <- lib.rejected, Settings <- lib.settings,
        Entries <- lib.entries, Absent <- lib.absent, Broken <- lib.broken,
        NoSection <- lib.noSection, Failed <- lib.failed
=============================================================================
