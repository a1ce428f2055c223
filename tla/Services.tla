-------------------------------- MODULE Services --------------------------------
(***************************************************************************)
(* The parts around the interpreters that share nothing with each other:   *)
(* the memory of HighPerformanceMemoryManager, the type system, the mock   *)
(* scene, the IL parser, the exception handler, the two inline caches, the *)
(* JIT compiler, the metadata loader and the generic sharing manager.  A   *)
(* behaviour uses one of them.                                             *)
(***************************************************************************)
EXTENDS HPMemory, TypeSystem, UnityBridge, ILParser, ExceptionHandler, InlineCaches,
        JITCompiler, MetadataLoader, GenericSharing

VARIABLE subject      \* the part that the behaviour uses

vars == <<subject, hpVars, typeVars, sceneVars, parserVars, handlerVars, cacheVars, jitVars,
          loaderVars, sharingVars>>

Subjects == {"memory", "types", "scene", "parser", "handler", "calls", "checks", "jit",
             "loader", "sharing"}

\* What is not used starts in one of its initial states.
Init ==
    /\ subject \in Subjects
    /\ HPInit /\ SceneInit /\ HandlerInit /\ CheckInit /\ JITInit
    /\ LoaderInit /\ SharingInit
    /\ TypeInit /\ (subject # "types" => \A n \in BuiltIn : types[n] = 1)
    /\ SiteInit /\ (subject # "calls" => ~growing)
    /\ (subject # "parser" => method = <<>> /\ behind = 0)
    /\ ParserInit

UseMemory ==
    /\ subject = "memory" /\ HPNext
    /\ UNCHANGED <<subject, typeVars, sceneVars, parserVars, handlerVars, cacheVars,
                   jitVars, loaderVars, sharingVars>>
UseTypes ==
    /\ subject = "types" /\ TypeNext
    /\ UNCHANGED <<subject, hpVars, sceneVars, parserVars, handlerVars, cacheVars,
                   jitVars, loaderVars, sharingVars>>
UseScene ==
    /\ subject = "scene" /\ SceneNext
    /\ UNCHANGED <<subject, hpVars, typeVars, parserVars, handlerVars, cacheVars,
                   jitVars, loaderVars, sharingVars>>
UseParser ==
    /\ subject = "parser" /\ ParserNext
    /\ UNCHANGED <<subject, hpVars, typeVars, sceneVars, handlerVars, cacheVars,
                   jitVars, loaderVars, sharingVars>>
UseHandler ==
    /\ subject = "handler" /\ HandlerNext
    /\ UNCHANGED <<subject, hpVars, typeVars, sceneVars, parserVars, cacheVars,
                   jitVars, loaderVars, sharingVars>>
UseCalls ==
    /\ subject = "calls" /\ SiteNext
    /\ UNCHANGED <<subject, hpVars, typeVars, sceneVars, parserVars, handlerVars,
                   checkVars, jitVars, loaderVars, sharingVars>>
UseChecks ==
    /\ subject = "checks" /\ CheckNext
    /\ UNCHANGED <<subject, hpVars, typeVars, sceneVars, parserVars, handlerVars,
                   siteVars, jitVars, loaderVars, sharingVars>>
UseJIT ==
    /\ subject = "jit" /\ JITNext
    /\ UNCHANGED <<subject, hpVars, typeVars, sceneVars, parserVars, handlerVars,
                   cacheVars, loaderVars, sharingVars>>
UseLoader ==
    /\ subject = "loader" /\ LoaderNext
    /\ UNCHANGED <<subject, hpVars, typeVars, sceneVars, parserVars, handlerVars,
                   cacheVars, jitVars, sharingVars>>
UseSharing ==
    /\ subject = "sharing" /\ SharingNext
    /\ UNCHANGED <<subject, hpVars, typeVars, sceneVars, parserVars, handlerVars,
                   cacheVars, jitVars, loaderVars>>

Next ==
    \/ UseMemory \/ UseTypes \/ UseScene \/ UseParser
    \/ UseHandler \/ UseCalls \/ UseChecks \/ UseJIT \/ UseLoader \/ UseSharing

Spec == Init /\ [][Next]_vars

\* The variables of every part keep their types: in the memory this bounds the
\* offset by the width of size_t, in the parser the reads behind the data, in
\* the JIT compiler what is a byte, in the tables every cached index.
TypeOK ==
    /\ HPTypeOK /\ TypeTypeOK /\ SceneTypeOK /\ ParserTypeOK
    /\ HandlerTypeOK /\ CachesTypeOK /\ JITTypeOK /\ LoaderTypeOK /\ SharingTypeOK

==============================================================================
