----------------------------- MODULE Allocator -----------------------------
(***************************************************************************)
(* What users of the kernel heap rely on: kmalloc returns memory that      *)
(* nobody else has, large enough and aligned, and it stays theirs, in      *)
(* place, until they free it.  Heap implements this.                       *)
(***************************************************************************)
EXTENDS Naturals

CONSTANTS
  Ranges,     \* the ranges [at, len] of memory, in bytes
  Requests,   \* sizes asked for
  FrameAt(_), \* the range of a frame
  Frames

VARIABLES
  live,       \* the ranges handed out
  others      \* frames that other parts of the kernel hold

Disjoint(r, s) == r.at + r.len <= s.at \/ s.at + s.len <= r.at

Init == live = {} /\ others = {}

Alloc(n) ==
  \E r \in live' \ live :
    /\ r \in Ranges
    /\ r.len >= n
    /\ \A s \in live : Disjoint(r, s)
    /\ \A f \in others : Disjoint(r, FrameAt(f))
    /\ live' = live \union {r}
    /\ UNCHANGED others

Free ==
  \E r \in live : live' = live \ {r} /\ UNCHANGED others

TakeFrame(f) ==
  /\ f \notin others
  /\ \A r \in live : Disjoint(r, FrameAt(f))
  /\ others' = others \union {f}
  /\ UNCHANGED live

ReleaseFrame(f) ==
  /\ f \in others
  /\ others' = others \ {f}
  /\ UNCHANGED live

Next ==
  \/ \E n \in Requests : Alloc(n)
  \/ Free
  \/ \E f \in Frames : TakeFrame(f) \/ ReleaseFrame(f)

Spec == Init /\ [][Next]_<<live, others>>
=============================================================================
