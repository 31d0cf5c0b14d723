------------------------------- MODULE Loader -------------------------------
(***************************************************************************)
(* Bringing a Mach-O program up: its images are mapped, resolved, patched  *)
(* and run, on processors that lack some of its instructions, with its     *)
(* allocations traced, its messages sent and its files saved.              *)
(*                                                                         *)
(* The modules share no state: the mapping is complete before the resolver *)
(* reads an image, the resolver writes data and the patches write code,    *)
(* and the islands, the allocation tracer, the Objective-C runtime and the *)
(* files come after all of them.  It is enough to let one of them run,     *)
(* whichever.                                                              *)
(***************************************************************************)
EXTENDS Startup, ImageMapping, CodePatches, IsaEmul, HeapTrace, SavedFiles, ObjcRuntime

VARIABLE running \* the component that runs

vars == <<startupVars, mappingVars, patchVars, isaVars, heapVars, savedVars, objcVars,
          running>>

Init ==
    /\ running \in {"startup", "mapping", "patches", "islands", "bcax", "tracer", "files", "objc"}
    /\ running # "startup" => /\ mapping = CHOOSE m \in Mappings : TRUE
                              /\ chained = CHOOSE f \in Formats : TRUE
                              /\ strict = FALSE /\ audit = FALSE /\ dylib_map = TRUE
    /\ running # "patches" => /\ hooks = <<>> /\ patches = <<>>
                              /\ config = CHOOSE c \in Configs : TRUE
                              /\ entry = CHOOSE e \in Entries : TRUE
    /\ running # "islands" => mem = 0 /\ instr = [t \in Threads |-> CHOOSE i \in Instructions : TRUE]
    /\ StartupInit /\ MappingInit /\ PatchInit /\ IsaInit /\ HeapInit /\ SavedInit /\ ObjcInit
    /\ running # "tracer" => world = CHOOSE w \in Worlds : TRUE
    /\ running # "files" => node = <<>> /\ asked = (CHOOSE sc \in Scenarios : sc.tree = <<>>).asked
    /\ running # "objc" => use = "methods"

Next ==
    /\ UNCHANGED running
    /\ \/ /\ running = "startup" /\ StartupNext
          /\ UNCHANGED <<mappingVars, patchVars, isaVars, heapVars, savedVars, objcVars>>
       \/ /\ running = "mapping" /\ MappingNext
          /\ UNCHANGED <<startupVars, patchVars, isaVars, heapVars, savedVars, objcVars>>
       \/ /\ running = "patches" /\ PatchNext
          /\ UNCHANGED <<startupVars, mappingVars, isaVars, heapVars, savedVars, objcVars>>
       \/ /\ running = "islands" /\ IslandNext
          /\ UNCHANGED <<startupVars, mappingVars, patchVars, heapVars, savedVars, objcVars>>
       \/ /\ running = "bcax" /\ BcaxNext
          /\ UNCHANGED <<startupVars, mappingVars, patchVars, heapVars, savedVars, objcVars>>
       \/ /\ running = "tracer" /\ HeapNext
          /\ UNCHANGED <<startupVars, mappingVars, patchVars, isaVars, savedVars, objcVars>>
       \/ /\ running = "files" /\ SavedNext
          /\ UNCHANGED <<startupVars, mappingVars, patchVars, isaVars, heapVars, objcVars>>
       \/ /\ running = "objc" /\ ObjcNext
          /\ UNCHANGED <<startupVars, mappingVars, patchVars, isaVars, heapVars, savedVars>>

Spec == Init /\ [][Next]_vars
=============================================================================
