---------------------------- MODULE ExceptionHandler ----------------------------
(***************************************************************************)
(* ExceptionHandler, src/src/core/exception_handling.{h,cpp}: a stack of   *)
(* the try regions entered and not left, and the search for a handler.     *)
(*                                                                         *)
(* Frames are pushed as IL's try regions are entered: inside the region    *)
(* entered last by the same activation of a method, and popped before that *)
(* activation ends.  A frame does not say which method it is of.  The      *)
(* creation of exception objects is left out.                              *)
(***************************************************************************)
EXTENDS Integers, SequencesExt

CONSTANTS
    Pcs,            \* program counters: an interval
    CatchTypes,     \* values of ExceptionType, None among them
    NoCatchType,    \* ExceptionType::None
    CatchIndices,   \* values of catch_type_index; 0 is any
    Exceptions,     \* exception objects
    NoException,    \* nullptr
    MaxFrames,      \* bound: frames pushed
    MaxActivations  \* bound: methods active

ASSUME HandlerConstantsAssumption ==
    /\ Pcs \subseteq Nat /\ NoCatchType \in CatchTypes /\ CatchIndices \subseteq Nat
    /\ NoException \notin Exceptions /\ MaxFrames \in Nat /\ MaxActivations \in Nat \ {0}

VARIABLES
    frame_stack_,       \* the frames, newest first
    current_exception_,
    activation          \* history: how many methods are active

handlerVars == <<frame_stack_, current_exception_, activation>>

Frame == [try_start : Pcs, try_end : Pcs, catch_type : CatchTypes,
          catch_type_index : CatchIndices, activation : 1 .. MaxActivations]

HandlerInit == frame_stack_ = <<>> /\ current_exception_ = NoException /\ activation = 1

-------------------------------------------------------------------------------
\* The frames that cover pc, and those that take an exception of type t and
\* index i: by their place on the stack.
Covering(pc) ==
    {k \in DOMAIN frame_stack_ : /\ pc >= frame_stack_[k].try_start
                                 /\ pc < frame_stack_[k].try_end}
Accepting(t, i) ==
    {k \in DOMAIN frame_stack_ : /\ frame_stack_[k].catch_type \in {NoCatchType, t}
                                 /\ frame_stack_[k].catch_type_index \in {0, i}}

\* The newest of the frames ks, 0 if there is none.
Newest(ks) == IF ks = {} THEN 0 ELSE CHOOSE k \in ks : \A j \in ks : k <= j

FindHandler(pc, t, i)  == Newest(Covering(pc) \cap Accepting(t, i))

\* is_finally is not looked at.
FindFinallyHandler(pc) == Newest(Covering(pc))

-------------------------------------------------------------------------------
Own == {k \in DOMAIN frame_stack_ : frame_stack_[k].activation = activation}

\* Mutant of PushFrame: the new frame goes to the far end of the list.
PushFrameLast(f) ==
    /\ Len(frame_stack_) < MaxFrames
    /\ f.activation = activation
    /\ \A k \in Own : frame_stack_[k].try_start <= f.try_start /\ f.try_end <= frame_stack_[k].try_end
    /\ frame_stack_' = Append(frame_stack_, f)
    /\ UNCHANGED <<current_exception_, activation>>

\* PushFrame, on entry to a region inside those of this activation.
PushFrame(f) ==
    /\ Len(frame_stack_) < MaxFrames
    /\ f.activation = activation
    /\ \A k \in Own : frame_stack_[k].try_start <= f.try_start /\ f.try_end <= frame_stack_[k].try_end
    /\ frame_stack_' = <<f>> \o frame_stack_
    /\ UNCHANGED <<current_exception_, activation>>

\* PopFrame, by the activation that pushed the frame.
PopFrame ==
    /\ Own # {}
    /\ frame_stack_' = Tail(frame_stack_)
    /\ UNCHANGED <<current_exception_, activation>>

\* Throw looks for a handler of nothing at pc 0 and does nothing with it; Throw,
\* ThrowExplicit and SetCurrentException leave the same state.
Throw(e) ==
    /\ current_exception_' = e
    /\ UNCHANGED <<frame_stack_, activation>>

Rethrow == current_exception_ # NoException /\ Throw(current_exception_)

ClearCurrentException == Throw(NoException)

\* The interpreter calls a method, and leaves one whose regions are popped.
Enter ==
    /\ activation < MaxActivations
    /\ activation' = activation + 1
    /\ UNCHANGED <<frame_stack_, current_exception_>>
Leave ==
    /\ activation > 1 /\ Own = {}
    /\ activation' = activation - 1
    /\ UNCHANGED <<frame_stack_, current_exception_>>

HandlerNext ==
    \/ \E f \in Frame : f.try_start < f.try_end /\ PushFrame(f)
    \/ PopFrame \/ Enter \/ Leave
    \/ \E e \in Exceptions : Throw(e)
    \/ Rethrow \/ ClearCurrentException

HandlerSpec == HandlerInit /\ [][HandlerNext]_handlerVars

-------------------------------------------------------------------------------
HandlerTypeOK ==
    /\ frame_stack_ \in Seq(Frame) /\ Len(frame_stack_) <= MaxFrames
    /\ current_exception_ \in Exceptions \cup {NoException}
    /\ activation \in 1 .. MaxActivations

\* k is the smallest region among ks.
Innermost(k, ks) ==
    /\ k \in ks
    /\ \A j \in ks : /\ frame_stack_[j].try_start <= frame_stack_[k].try_start
                     /\ frame_stack_[k].try_end <= frame_stack_[j].try_end

\* Whatever was entered and left before, and whatever regions the callers are
\* in: when regions of the running method cover pc and take the exception,
\* FindHandler finds the innermost of them; and FindFinallyHandler the
\* innermost that covers pc.  (exception_handling.cpp:7-56; with none in the
\* running method a caller's frame is found whose region has the same numbers.)
InnermostHandler ==
    \A pc \in Pcs :
        /\ \A t \in CatchTypes, i \in CatchIndices :
              LET mine == Own \cap Covering(pc) \cap Accepting(t, i)
              IN  mine # {} => Innermost(FindHandler(pc, t, i), mine)
        /\ Own \cap Covering(pc) # {} =>
              Innermost(FindFinallyHandler(pc), Own \cap Covering(pc))

==============================================================================
