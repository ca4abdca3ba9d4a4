---- MODULE AthenaPython ----
(* athena-python: extensions of Athena that are written in Python.  The files of two directories
   are loaded, a type is registered for each class that provides something, and the file manager
   makes one object of each type and calls it.  The interpreter is started when the first file is
   found and ended with the file manager, which keeps files longer.

   One such extension is gnome3-emblems: a page of properties on which the emblem of files is
   chosen.

   What a method does is any of what methods do; what an error that was left set does to the next
   call is up to Python. *)
EXTENDS Naturals, Sequences, FiniteSets, SequencesExt

CONSTANTS
    Directories,  \* what may be in the global and in the user's one: sequences of files, each
                  \* a set of the classes that are known in it, imported ones too
    Shown,        \* files of the file manager
    Emblems,
    MaxPages      \* pages of properties that are opened: a bound

\* The classes that are known in some file.
InFiles(pair) == UNION {UNION ToSet(dir) : dir \in {pair[1], pair[2]}}

ASSUME PythonAssumption ==
    /\ \A pair \in Directories :
         /\ pair[1] \in Seq(SUBSET InFiles(pair)) /\ pair[2] \in Seq(SUBSET InFiles(pair))
         /\ IsFiniteSet(InFiles(pair))
         /\ \A class \in InFiles(pair) : class.raises \in BOOLEAN
    /\ MaxPages \in Nat

VARIABLES
    directories,
    stage,        \* what the file manager does: it loads "global", then "user", is "running" or "over"
    interpreter,  \* "none", "half" when the types of Athena are not there, "ready", "finalized"
    all_types,    \* names of types, in the order they are listed
    registered,   \* the class behind each name
    found,        \* ghost: classes that were loaded
    providers,    \* objects of the file manager: their class, whether there is an instance, references
    pending,      \* a Python error is left set
    wrapped,      \* files that have data which Python must free
    called,       \* ghost: the last call, what its method did and what was made of it
    pages,        \* pages of emblems, with their files, and the files the extension thinks of
    emblem,       \* of each file
    crashed

python_vars == <<directories, stage, interpreter, all_types, registered, found, providers, pending, wrapped, called,
                 pages, emblem, crashed>>

NoCall == [method |-> "none", did |-> "none", got |-> 0, disturbed |-> FALSE]
Loaded == <<directories, stage, interpreter, all_types, registered, found>>
Page == <<pages, emblem>>

----
(* athena-python.c *)

\* athena_python_init_python: once Python is started, all is taken to be there.
InitPython(started) == IF interpreter = "none" THEN (IF started THEN "ready" ELSE "half") ELSE interpreter

\* athena_python_object_get_type, of each class: a type that has the name already gets the
\* class.
get_type(classes) ==
    [n \in DOMAIN registered |->
        LET named == {i \in DOMAIN classes : classes[i].name = n}
        IN IF named = {} THEN registered[n]
           ELSE classes[CHOOSE i \in named : \A h \in named : h <= i]]

\* athena_python_load_file, of each file that can be imported, in the order of the directory.
Classes(dir, failing) ==
    FlattenSeq([i \in DOMAIN dir |-> IF i \in failing THEN <<>> ELSE SetToSeq(dir[i])])

\* Mutant: what has been registered is listed again.
LoadDir_ListsAll(dir, started, failing) ==
    LET classes == Classes(dir, failing)
    IN /\ interpreter' = IF dir = <<>> THEN interpreter ELSE InitPython(started)
       /\ all_types' = all_types \o all_types \o [i \in DOMAIN classes |-> classes[i].name]
       /\ registered' = get_type(classes)
       /\ found' = found \cup ToSet(classes)
       /\ UNCHANGED crashed

\* athena_python_load_dir: it is given up when Python cannot be started; a class is
\* compared with the types of Athena, wherever they are.
LoadDir(dir, started, failing) ==
    LET python == IF dir = <<>> THEN interpreter ELSE InitPython(started)
        given_up == interpreter = "none" /\ python = "half"
        classes == IF given_up THEN <<>> ELSE Classes(dir, failing)
    IN /\ interpreter' = python
       /\ IF python = "half" /\ classes # <<>>
          THEN crashed' = TRUE /\ UNCHANGED <<all_types, registered, found>>
          ELSE /\ all_types' = all_types \o [i \in DOMAIN classes |-> classes[i].name]
               /\ registered' = get_type(classes)
               /\ found' = found \cup ToSet(classes)
               /\ UNCHANGED crashed

\* athena_module_initialize; then the file manager makes an object of each type
\* (athena_python_object_instance_init).
ModuleInitialize ==
    /\ \E started \in BOOLEAN :
         \/ /\ stage = "global" /\ stage' = "user"
            /\ \E failing \in SUBSET DOMAIN directories[1] : LoadDir(directories[1], started, failing)
         \/ /\ stage = "user" /\ stage' = "made"
            /\ \E failing \in SUBSET DOMAIN directories[2] : LoadDir(directories[2], started, failing)
    /\ UNCHANGED <<directories, providers, pending, wrapped, called, Page>>

MakeProviders ==
    /\ stage = "made" /\ stage' = "running"
    /\ providers' = [i \in DOMAIN all_types |->
                        [class |-> registered[all_types[i]], instance |-> ~registered[all_types[i]].raises, refs |-> 1]]
    /\ UNCHANGED <<directories, interpreter, all_types, registered, found, pending, wrapped, called, Page, crashed>>

\* athena_module_shutdown; files are freed after that.
ModuleShutdown ==
    /\ stage = "running" /\ stage' = "over"
    /\ interpreter' = IF interpreter = "none" THEN "none" ELSE "finalized"
    /\ crashed' = (wrapped # {} /\ interpreter # "none")
    /\ UNCHANGED <<directories, all_types, registered, found, providers, pending, wrapped, called, Page>>

----
(* athena-python-object.c *)

\* What a method may do: return things, None or nothing it should, or raise.
Doings == {"items", "none", "raises", "not a list", "mixed"}

\* HANDLE_RETVAL, HANDLE_LIST: of two things, the first is kept when the second is not one.
Got(did) == CASE did = "items" -> 2 [] did = "mixed" -> 1 [] OTHER -> 0

\* An error is printed and so cleared when the method raised, and left when what it
\* returned is found wrong.
Left(did) == CASE did = "raises" -> FALSE
               [] did \in {"not a list", "mixed"} -> TRUE
               [] OTHER -> pending

\* CHECK_OBJECT: without an instance the object is unreferenced, at each call.
WithoutInstance(p) ==
    /\ ~providers[p].instance
    /\ providers' = [providers EXCEPT ![p].refs = @ - 1]
    /\ UNCHANGED <<pending, wrapped, called, pages, emblem>>

\* Mutant: the data of the files is kept when items were asked for.
Unwrap_Never(method, of) == wrapped \cup of

\* free_pygobject_data: not for pages of properties.
Unwrap(method, of) == IF method = "get_property_pages" THEN wrapped \cup of ELSE wrapped \ of

\* An error that was left may be taken for one of the method.
Method(p, method, of, did, disturbed) ==
    LET does == IF disturbed THEN "raises" ELSE did
    IN /\ providers[p].instance /\ method \in providers[p].class.methods
       /\ called' = [method |-> method, did |-> did, got |-> Got(does), disturbed |-> disturbed]
       /\ pending' = Left(does)
       /\ wrapped' = Unwrap(method, of)
       /\ UNCHANGED <<providers, emblem>>
       /\ IF method = "get_property_pages" /\ does = "items"
          THEN Len(pages) < MaxPages /\ pages' = Append(pages, of)
          ELSE UNCHANGED pages

\* What the class does not have is not called, but the files are looked after.
NoMethod(p, method, of) ==
    /\ providers[p].instance /\ method \notin providers[p].class.methods
    /\ wrapped' = IF method = "get_property_pages" THEN wrapped ELSE Unwrap(method, of)
    /\ UNCHANGED <<providers, pending, called, pages, emblem>>

\* cancel_update: what becomes of it is not looked at.
CancelUpdate(p) ==
    /\ providers[p].instance /\ "update_file_info" \in providers[p].class.methods
    /\ pending' = TRUE
    /\ UNCHANGED <<providers, wrapped, called, pages, emblem>>

\* An object that has been freed is called all the same.
Call(p) ==
    /\ stage = "running"
    /\ IF providers[p].refs = 0
       THEN crashed' = TRUE /\ UNCHANGED <<providers, pending, wrapped, called, Page>>
       ELSE /\ UNCHANGED crashed
            /\ \/ WithoutInstance(p) \/ CancelUpdate(p)
               \/ \E method \in {"get_property_pages", "get_file_items", "update_file_info"}, of \in (SUBSET Shown) \ {{}} :
                    \/ NoMethod(p, method, of)
                    \/ \E did \in Doings, disturbed \in {FALSE, pending} : Method(p, method, of, did, disturbed)
    /\ UNCHANGED Loaded

----
\* gnome3-emblems: an emblem is chosen on a page, for the files that the extension was
\* asked for last.
OnSelectionChanged(page, chosen) ==
    /\ stage = "running" /\ page \in DOMAIN pages
    /\ emblem' = [f \in Shown |-> IF f \in Last(pages) THEN chosen ELSE emblem[f]]
    /\ called' = [method |-> "on_selection_changed", did |-> "emblem", got |-> page, disturbed |-> FALSE]
    /\ UNCHANGED <<Loaded, providers, pending, wrapped, pages, crashed>>

PythonOver == (crashed \/ stage = "over") /\ UNCHANGED python_vars

PythonInit ==
    /\ directories \in Directories
    /\ stage = "global" /\ interpreter = "none" /\ all_types = <<>> /\ found = {}
    /\ registered = [n \in {class.name : class \in InFiles(directories)} |->
                        [name |-> n, methods |-> {}, raises |-> FALSE]]
    /\ providers = <<>> /\ pending = FALSE /\ wrapped = {} /\ called = NoCall
    /\ pages = <<>> /\ emblem = [f \in Shown |-> "none"] /\ crashed = FALSE

PythonNext ==
    \/ /\ ~crashed
       /\ \/ ModuleInitialize \/ MakeProviders \/ ModuleShutdown
          \/ \E p \in DOMAIN providers : Call(p)
          \/ \E page \in 1..MaxPages, chosen \in Emblems : OnSelectionChanged(page, chosen)
    \/ PythonOver

PythonSpec == PythonInit /\ [][PythonNext]_python_vars

----
\* The file manager goes on, and ends well, whatever extensions do.  Unless the
\* constructor of one raised, whose object is given up once for each call; Python or the
\* types of Athena were not there when the first directory was loaded, and the second is;
\* or pages of properties were asked for, after which the data of the files is not freed.
PythonSafeUnless ==
    crashed => \/ \E class \in found : class.raises
               \/ interpreter = "half"
               \/ \E p \in DOMAIN providers : "get_property_pages" \in providers[p].class.methods

Known(class) ==
    Cardinality({i \in DOMAIN directories[1] : class \in directories[1][i]})
        + Cardinality({i \in DOMAIN directories[2] : class \in directories[2][i]})

\* Every class that was loaded is called as one extension, unless another has its name or
\* two files know it; what a method returned is what the file manager gets, unless an error was left by an
\* earlier call; and an emblem is chosen for the files of the page, unless a page has been
\* opened since.
PythonAnswersUnless ==
    stage = "running" =>
        /\ \A class \in found : Known(class) = 1 /\ (\A other \in found : other.name = class.name => other = class) =>
             Cardinality({p \in DOMAIN providers : providers[p].class = class}) = 1
        /\ called.did = "items" /\ ~called.disturbed => called.got = 2
        /\ called.method = "on_selection_changed" /\ called.got = Len(pages) =>
             Cardinality({emblem[f] : f \in pages[called.got]}) = 1
====
