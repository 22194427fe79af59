------------------------------ MODULE StackMaps -----------------------------
(***************************************************************************)
(* The stack maps of the compiled modules: the back end writes where each  *)
(* call site spills its values, the runtime reads that table back, and the *)
(* collector looks up the return addresses it finds on the stack.          *)
(***************************************************************************)
EXTENDS Integers, Sequences, FiniteSets, FiniteSetsExt

LOCAL S == INSTANCE SequencesExt

CONSTANTS Modules,   \* the compiled modules, 1..n in the order they are loaded
          Programs   \* the sequences of compiled functions of the instance

(* A function has a pointer, a module, the size of its name and its call    *)
(* sites; a site has its offset in the function and the locations LLVM      *)
(* reports for its live values.                                             *)
VARIABLES program,     \* all functions, in the order LLVM reports them
          stage,       \* "write" | "read" | "ready" | "rejected" | "lost"
          module,      \* the module being written and read
          unwritten,   \* the deque of functions not yet written
          callsites,   \* the call sites not yet written
          remaining,   \* remainingCallsites
          image,       \* the objects written, each with its position
          position,    \* bytes written
          cursor,      \* where the reader is
          described    \* the StackMapDescription of each module

mapVars == <<program, stage, module, unwritten, callsites, remaining, image,
             position, cursor, described>>

FunctionsOf(m) == SelectSeq(program, LAMBDA f : f.module = m)
SitesOf(fs) == S!FlattenSeq([i \in DOMAIN fs |-> fs[i].sites])

EmptyDescription == [functions |-> <<>>, statepoints |-> <<>>, heap |-> <<>>]

MapsInit ==
    /\ program \in Programs
    /\ stage = "write"
    /\ module = 1
    /\ unwritten = FunctionsOf(1)
    /\ callsites = SitesOf(FunctionsOf(1))
    /\ remaining = -1
    /\ image = <<>>
    /\ position = 8
    /\ cursor = 8
    /\ described = [m \in Modules |-> EmptyDescription]

AlignTo64(value) == IF value % 8 = 0 THEN value ELSE value + 8 - (value % 8)

StatepointSize(count) == AlignTo64(4 + count)

(* An object: what its header says, and the bytes that really follow it.    *)
FunctionObject(function) ==
    [id |-> "FUNCTION", sectionSize |-> 16, forObject |-> 0, bytes |-> 16,
     body |-> function.pointer]
NameObject(function) ==
    [id |-> "OBJECT_NAME", sectionSize |-> AlignTo64(function.nameSize) % 65536,
     forObject |-> function.nameSize, bytes |-> function.nameSize, body |-> 0]
StatepointObject(site, offsets) ==
    [id |-> "STATEPOINT", sectionSize |-> StatepointSize(Len(offsets)),
     forObject |-> Len(offsets), bytes |-> 4 + Len(offsets),
     body |-> [instruction |-> site.offset, offsets |-> offsets]]
EndObject ==
    [id |-> "END_OF_STACK_MAP", sectionSize |-> 0, forObject |-> 0, bytes |-> 0,
     body |-> 0]

WriteFunctions(fs) ==
    S!FlattenSeq([i \in DOMAIN fs |-> <<FunctionObject(fs[i]), NameObject(fs[i])>>])

(* Every object starts with an eight-byte header and is padded to eight.    *)
SpaceOf(objects) ==
    MapThenSumSet(LAMBDA i : 8 + AlignTo64(objects[i].bytes), DOMAIN objects)
Emit(objects) ==
    /\ image' = image \o [i \in DOMAIN objects |->
                   [object |-> objects[i],
                    at |-> position + SpaceOf(SubSeq(objects, 1, i - 1))]]
    /\ position' = position + SpaceOf(objects)

(* Faulty variant: the offset is packed without checking that it fits.      *)
PackableAligned(location) == location.offset >= 0 /\ location.offset % 8 = 0

(* Only an eight-byte slot above the stack pointer, within 255 words, can   *)
(* be described; for anything else the compiler gives up.                   *)
Packable(location) ==
    /\ location.type = "stack"
    /\ location.offset >= 0
    /\ location.offset % 8 = 0
    /\ location.offset = ((location.offset \div 8) % 256) * 8

Pack(location) == (location.offset \div 8) % 256

(* Constants are literals and need no marking. *)
Spilled(site) == SelectSeq(site.locations, LAMBDA l : l.type # "constant")

(* How many functions are written before the next call site: up to and      *)
(* including the first one that has call sites.                             *)
FunctionsToWrite ==
    IF remaining >= 1 THEN 0
    ELSE Min({i \in DOMAIN unwritten : unwritten[i].sites # <<>>})

WriteCallsite ==
    /\ stage = "write"
    /\ callsites # <<>>
    /\ LET site == Head(callsites)
           written == FunctionsToWrite
       IN
       IF \E i \in DOMAIN Spilled(site) : ~Packable(Spilled(site)[i])
         THEN /\ stage' = "rejected"
              /\ UNCHANGED <<unwritten, callsites, remaining, image, position>>
         ELSE /\ Emit(WriteFunctions(SubSeq(unwritten, 1, written))
                        \o <<StatepointObject(site,
                               [i \in DOMAIN Spilled(site) |-> Pack(Spilled(site)[i])])>>)
              /\ remaining' = (IF written = 0 THEN remaining
                               ELSE Len(unwritten[written].sites)) - 1
              /\ unwritten' = SubSeq(unwritten, written + 1, Len(unwritten))
              /\ callsites' = Tail(callsites)
              /\ UNCHANGED stage
    /\ UNCHANGED <<program, module, cursor, described>>

(* The functions without call sites, and the end marker. *)
WriteRest ==
    /\ stage = "write"
    /\ callsites = <<>>
    /\ Emit(Append(WriteFunctions(unwritten), EndObject))
    /\ unwritten' = <<>>
    /\ stage' = "read"
    /\ UNCHANGED <<program, module, callsites, remaining, cursor, described>>

-----------------------------------------------------------------------------
(* One object added to a StackMapDescription. *)
AfterObject(description, object) ==
    CASE object.id = "FUNCTION" ->
           [description EXCEPT !.functions = Append(@, object.body)]
      [] object.id = "STATEPOINT" ->
           [description EXCEPT
              !.statepoints = Append(@,
                 [functionId |-> Len(description.functions),
                  instructionOffset |-> object.body.instruction,
                  offsetIndex |-> Len(description.heap),
                  numLocals |-> object.forObject]),
              !.heap = @ \o object.body.offsets]
      [] OTHER -> description

ObjectsAt(place) == {i \in DOMAIN image : image[i].at = place}

(* The reader steps from object to object by the sizes in their headers;    *)
(* where no object starts it would read something else.                     *)
ReadObject ==
    /\ stage = "read"
    /\ IF ObjectsAt(cursor) = {}
         THEN stage' = "lost" /\ UNCHANGED <<described, cursor>>
         ELSE LET object == image[CHOOSE i \in ObjectsAt(cursor) : TRUE].object IN
              /\ object.id # "END_OF_STACK_MAP"
              /\ described' = [described EXCEPT ![module] = AfterObject(@, object)]
              /\ cursor' = cursor + 8 + object.sectionSize
              /\ UNCHANGED stage
    /\ UNCHANGED <<program, module, unwritten, callsites, remaining, image, position>>

(* The end of one module's map: on to the next module, if there is one.     *)
EndOfStackMap ==
    /\ stage = "read"
    /\ \E i \in ObjectsAt(cursor) : image[i].object.id = "END_OF_STACK_MAP"
    /\ IF module + 1 \in Modules
         THEN /\ stage' = "write"
              /\ module' = module + 1
              /\ unwritten' = FunctionsOf(module')
              /\ callsites' = SitesOf(unwritten')
         ELSE stage' = "ready" /\ UNCHANGED <<module, unwritten, callsites>>
    /\ remaining' = -1
    /\ image' = <<>>
    /\ position' = 8
    /\ cursor' = 8
    /\ UNCHANGED <<program, described>>

MapsNext == WriteCallsite \/ WriteRest \/ ReadObject \/ EndOfStackMap

MapsSpec == MapsInit /\ [][MapsNext]_mapVars

-----------------------------------------------------------------------------
FindInstructionPtr(description, statepoint) ==
    description.functions[statepoint.functionId] + statepoint.instructionOffset

NoStatepoint == <<-1>>

(* The binary search finds the first statepoint at or after the address;    *)
(* the result is the list of its packed offsets.                            *)
Lookup(description, address) ==
    LET points == description.statepoints
        Ptr(i) == FindInstructionPtr(description, points[i])
        after == {i \in DOMAIN points : Ptr(i) >= address}
        match == CHOOSE i \in after : \A j \in after : Ptr(i) <= Ptr(j)
    IN
    IF after = {} \/ Ptr(match) # address THEN NoStatepoint
    ELSE SubSeq(description.heap, points[match].offsetIndex + 1,
                points[match].offsetIndex + points[match].numLocals)

(* The collector's function table: <<function pointer, module>> pairs.      *)
FunctionTable ==
    UNION {{<<described[m].functions[i], m>> : i \in DOMAIN described[m].functions} :
             m \in Modules}

(* What MarkThreadRoots does with a frame: the last function that starts    *)
(* before the instruction pointer says in which map to look.                *)
ScanFrame(ip) ==
    LET before == {f \in FunctionTable : f[1] < ip} IN
    IF before = {} THEN NoStatepoint
    ELSE Lookup(described[(CHOOSE f \in before : \A g \in before : f[1] >= g[1])[2]], ip)

-----------------------------------------------------------------------------
Addresses == UNION {{f.pointer + offset : offset \in 0..20} : f \in S!ToSet(program)}

(* The locations of the site an address belongs to, if it is one.           *)
SitesAt(address) ==
    UNION {{site \in S!ToSet(f.sites) : f.pointer + site.offset = address} :
             f \in S!ToSet(program)}

(* Once the maps are read, the collector marks in the frame of every call   *)
(* site exactly the stack slots that LLVM spilled there, whichever module   *)
(* the function is in; for every other address it finds nothing.  Until     *)
(* then the reader and the writer agree on where objects start, although    *)
(* one counts section sizes and the other pads to alignment.                *)
FrameSlotsExact ==
    /\ stage # "lost"
    /\ stage = "ready" =>
        \A address \in Addresses :
            IF SitesAt(address) = {} THEN ScanFrame(address) = NoStatepoint
            ELSE \A site \in SitesAt(address) :
                    /\ Len(ScanFrame(address)) = Len(Spilled(site))
                    /\ \A i \in DOMAIN Spilled(site) :
                          8 * ScanFrame(address)[i] = Spilled(site)[i].offset
=============================================================================
