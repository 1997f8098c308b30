---------------------------- MODULE CameraDevice ----------------------------
(***************************************************************************)
(* The camera (camera.c, camera_driver_resources.c): one device, captures  *)
(* whose worker takes a frame buffer from the driver, the frame that is    *)
(* lent to the script, to a byte source or to a bitmap operation, and a    *)
(* close that revokes the frame and takes the driver down in a worker.     *)
(***************************************************************************)
EXTENDS Naturals, FiniteSets

CONSTANTS Overlap,   \* may a script queue a capture behind a close?
          MaxOpens, MaxOps, MaxFrames, MaxSources, MaxFaults     \* bounds

VARIABLES
    cam,     \* s_camera
    obj,     \* live objects: generation of the Camera, of the CameraFrame (0: none)
    src,     \* frame sources, in the order they are made
    views,   \* frame generations lent to bitmap operations
    op,      \* captures and closes, in the order they are called
    driver,  \* [up, out]: the driver and the frame buffers it has given out
    count    \* [opens, frames, faults]

vars == <<cam, obj, src, views, op, driver, count>>

Ids == 1 .. MaxOps
Sources == 1 .. MaxSources
NoCam == [allocated |-> FALSE, initialized |-> FALSE, busy |-> FALSE, release_pending |-> FALSE,
          generation |-> 0, frame_generation |-> 0, leased_fb |-> 0, frame_revoked |-> FALSE,
          source |-> 0, bitmap_read_leases |-> 0, capture_state |-> 0, close_state |-> 0,
          leases |-> FALSE]
NoSource == [object |-> FALSE, frame |-> 0, opened |-> FALSE, iterator |-> FALSE,
             consumed |-> FALSE, destroy_requested |-> FALSE, made |-> FALSE]
NoOp == [phase |-> "none", kind |-> "none", generation |-> 0, frame |-> 0, worker |-> FALSE,
         cleanup |-> "none", completed |-> FALSE, cancelled |-> FALSE, failed |-> FALSE]

Init ==
    /\ cam = NoCam /\ obj = [cam |-> 0, frame |-> 0]
    /\ src = [s \in Sources |-> NoSource] /\ views = {}
    /\ op = [o \in Ids |-> NoOp]
    /\ driver = [up |-> FALSE, out |-> {}]
    /\ count = [opens |-> 0, frames |-> 0, faults |-> 0]

Fault == count.faults < MaxFaults /\ count' = [count EXCEPT !.faults = @ + 1]
-------------------------------------------------------------------------------
(* Release, on w = [cam, op, driver, faults]: faults counts refusals. *)

World(c) == [cam |-> c, op |-> op, driver |-> driver, faults |-> 0]
Become(w) ==
    /\ cam' = w.cam /\ op' = w.op /\ driver' = w.driver
    /\ count.faults + w.faults <= MaxFaults
    /\ count' = [count EXCEPT !.faults = @ + w.faults]

\* camera_cleanup, with every outcome of esp_camera_deinit.
Returned(w) ==
    IF w.cam.source # 0 \/ w.cam.bitmap_read_leases # 0 THEN w
    ELSE [w EXCEPT !.driver.out = @ \ {w.cam.leased_fb},
                   !.cam.leased_fb = 0, !.cam.frame_revoked = FALSE]
Quiet(c) == ~c.busy /\ c.source = 0 /\ c.bitmap_read_leases = 0
camera_cleanup(w) ==
    IF ~w.cam.allocated \/ ~Quiet(w.cam) \/ w.cam.close_state # 0 THEN {w}
    ELSE LET r == Returned(w) IN
         {[r EXCEPT !.cam = NoCam, !.driver.up = FALSE]}
         \union IF r.cam.initialized
                THEN {[r EXCEPT !.cam.release_pending = TRUE, !.faults = @ + 1]} ELSE {}

\* camera_cleanup_if_ready: a pending close hands the driver to a worker; if no
\* worker takes it, the close is completed and its poll takes the driver down.
Scheduled(w) ==
    LET c == w.cam.close_state IN
    IF w.op[c].cleanup # "none" THEN {w}
    ELSE {[w EXCEPT !.op[c].cleanup = "submitted", !.op[c].worker = TRUE],
          [w EXCEPT !.op[c].cleanup = "inline", !.op[c].completed = TRUE, !.faults = @ + 1]}
camera_cleanup_if_ready(w) ==
    IF ~(w.cam.release_pending /\ Quiet(w.cam) /\ w.cam.leased_fb = 0) THEN {w}
    ELSE IF w.cam.close_state # 0 THEN Scheduled(w) ELSE camera_cleanup(w)

camera_release_frame(w) ==
    IF w.cam.source # 0 \/ w.cam.bitmap_read_leases # 0 THEN {w}
    ELSE camera_cleanup_if_ready(Returned(w))
-------------------------------------------------------------------------------
(* The camera. *)

Bound == obj.cam # 0 /\ cam.allocated /\ cam.generation = obj.cam
Usable == Bound /\ ~cam.release_pending
FrameKept(f) == f # 0 /\ cam.allocated /\ cam.leased_fb # 0 /\ cam.frame_generation = f
FrameValid(f) == FrameKept(f) /\ ~cam.frame_revoked

\* camera.open, first the clean-up that is pending; leases, driver, sensor or
\* object may fail, and the last two leave the device to a clean-up.
js_camera_open ==
    /\ count.opens < MaxOpens /\ obj.cam = 0
    /\ cam.allocated => cam.release_pending /\ Quiet(cam) /\ cam.close_state = 0
    /\ LET new == [NoCam EXCEPT !.allocated = TRUE, !.initialized = TRUE, !.leases = TRUE,
                                !.generation = count.opens + 1]
       IN \/ /\ cam' = new /\ obj' = [obj EXCEPT !.cam = count.opens + 1]
             /\ driver' = [driver EXCEPT !.up = TRUE]
             /\ count' = [count EXCEPT !.opens = @ + 1]
             /\ UNCHANGED op
          \/ /\ \E w \in camera_cleanup([World([new EXCEPT !.release_pending = TRUE]) EXCEPT
                                             !.driver.up = TRUE, !.faults = 1]) : Become(w)
             /\ UNCHANGED obj
    /\ UNCHANGED <<src, views>>

\* The clean-up that open, or the next context, tries first and that fails.
js_camera_open_pending ==
    /\ cam.allocated /\ cam.release_pending /\ Quiet(cam) /\ cam.close_state = 0
    /\ \E w \in camera_cleanup(World(cam)) : Become(w)
    /\ UNCHANGED <<obj, src, views>>

Owns(o) == op[o].phase \in {"queued", "active"}
\* Operations and frames keep the Camera object.
js_camera_finalizer ==
    /\ obj.cam # 0 /\ obj.frame = 0 /\ \A o \in Ids : ~Owns(o)
    /\ IF Bound THEN \E w \in camera_cleanup_if_ready(World([cam EXCEPT !.release_pending = TRUE])) : Become(w)
       ELSE UNCHANGED <<cam, op, driver, count>>
    /\ obj' = [obj EXCEPT !.cam = 0]
    /\ UNCHANGED <<src, views>>

deinit_camera_runtime ==
    /\ cam.allocated /\ obj = [cam |-> 0, frame |-> 0] /\ \A o \in Ids : ~Owns(o)
    /\ \E w \in (IF cam.busy THEN {World([cam EXCEPT !.release_pending = TRUE])}
                 ELSE camera_cleanup(World([cam EXCEPT !.release_pending = TRUE]))) : Become(w)
    /\ UNCHANGED <<obj, src, views>>
-------------------------------------------------------------------------------
(* Captures. *)

New(o, kind, gen) == op' = [op EXCEPT ![o] = [NoOp EXCEPT !.phase = "queued", !.kind = kind, !.generation = gen]]
Fresh(o) == op[o].phase = "none" /\ \A p \in 1 .. o - 1 : op[p].phase # "none"
\* Starts are served in the order of the calls, and before what they wake.
Turn(o) == op[o].phase = "queued" /\ \A p \in 1 .. o - 1 : op[p].phase # "queued"
Served == \A o \in Ids : op[o].phase # "queued"
Live(o) == cam.allocated /\ cam.generation = op[o].generation
Gone(f, o) == [f EXCEPT ![o] = [NoOp EXCEPT !.phase = "gone"]]

camera_capture_prepare(o) ==
    /\ Fresh(o) /\ Usable /\ ~cam.busy /\ cam.leased_fb = 0
    /\ ~Overlap => \A p \in Ids : Owns(p) => op[p].kind # "close"
    /\ New(o, "capture", obj.cam)
    /\ UNCHANGED <<cam, obj, src, views, driver, count>>

\* A capture is refused if the camera is gone or busy; without a worker it is
\* destroyed again.
camera_capture_start(o) ==
    /\ op[o].kind = "capture" /\ Turn(o)
    /\ IF Live(o) /\ ~cam.busy
       THEN \/ /\ cam' = [cam EXCEPT !.busy = TRUE, !.capture_state = o]
               /\ op' = [op EXCEPT ![o].phase = "active", ![o].worker = TRUE]
               /\ UNCHANGED <<driver, count>>
            \/ \E w \in camera_cleanup_if_ready([World(cam) EXCEPT !.op = Gone(op, o), !.faults = 1]) : Become(w)
       ELSE op' = Gone(op, o) /\ UNCHANGED <<cam, driver, count>>
    /\ UNCHANGED <<obj, src, views>>

\* camera_capture_worker polls the driver; it ends with a frame, at its timeout
\* or when it is cancelled.
camera_capture_worker(o) ==
    /\ op[o].kind = "capture" /\ op[o].worker
    /\ \/ /\ ~op[o].cancelled /\ driver.up /\ driver.out = {} /\ count.frames < MaxFrames
          /\ count' = [count EXCEPT !.frames = @ + 1]
          /\ driver' = [driver EXCEPT !.out = @ \union {count.frames + 1}]
          /\ op' = [op EXCEPT ![o].worker = FALSE, ![o].completed = TRUE, ![o].frame = count.frames + 1]
       \/ /\ op' = [op EXCEPT ![o].worker = FALSE, ![o].completed = TRUE]
          /\ UNCHANGED <<driver, count>>
    /\ UNCHANGED <<cam, obj, src, views>>

\* camera_capture_cancel: an interrupted capture costs the camera.
Cancelled(w, o) ==
    IF w.op[o].cancelled THEN w
    ELSE [w EXCEPT !.op[o].cancelled = TRUE,
                   !.cam.release_pending = @ \/ (w.cam.allocated /\ w.cam.generation = w.op[o].generation)]
camera_capture_cancel(o) ==
    /\ op[o].kind = "capture" /\ op[o].phase = "active" /\ ~op[o].cancelled
    /\ Become(Cancelled(World(cam), o))
    /\ UNCHANGED <<obj, src, views>>

\* camera_capture_finish lends the frame to a CameraFrame; destroy gives back a
\* frame that was not lent, and cleans up behind the last use.
Destroyed(w, o) ==
    LET x == [w EXCEPT !.driver.out = @ \ {w.op[o].frame}, !.op = Gone(w.op, o)] IN
    IF w.cam.allocated /\ w.cam.generation = w.op[o].generation
    THEN camera_cleanup_if_ready([x EXCEPT !.cam.busy = FALSE,
                                           !.cam.capture_state = IF @ = o THEN 0 ELSE @])
    ELSE {x}
camera_capture_finish(o) ==
    /\ op[o].kind = "capture" /\ op[o].phase = "active" /\ op[o].completed /\ Served
    /\ IF ~op[o].cancelled /\ Live(o) /\ ~cam.release_pending /\ op[o].frame # 0
       THEN LET lent == [World(cam) EXCEPT !.cam.leased_fb = op[o].frame,
                             !.cam.frame_generation = op[o].frame, !.op[o].frame = 0]
            IN \/ /\ \E w \in Destroyed(lent, o) : Become(w)
                  /\ obj' = [obj EXCEPT !.frame = op[o].frame]
               \/ /\ \E w \in camera_release_frame([lent EXCEPT !.faults = 1]) :
                        \E x \in Destroyed(w, o) : Become(x)
                  /\ UNCHANGED obj
               \/ /\ \E w \in Destroyed(World(cam), o) : Become(w)   \* past the timeout: null
                  /\ UNCHANGED obj
       ELSE /\ \E w \in Destroyed(World(cam), o) : Become(w)
            /\ UNCHANGED obj
    /\ UNCHANGED <<src, views>>
-------------------------------------------------------------------------------
(* Close. *)

camera_close_prepare(o) ==
    /\ Fresh(o) /\ obj.cam # 0
    /\ ~Overlap => \A p \in Ids : op[p].phase # "queued"
    /\ New(o, "close", IF Bound THEN obj.cam ELSE 0)
    /\ UNCHANGED <<cam, obj, src, views, driver, count>>

\* camera_revoke_frame: a source that is not being read lets go of the frame.
Revoked(w) ==
    IF w.cam.leased_fb = 0 THEN w
    ELSE [w EXCEPT !.cam.frame_revoked = TRUE,
             !.cam.source = IF @ # 0 /\ ~src[@].iterator THEN 0 ELSE @]
camera_close_start(o) ==
    /\ op[o].kind = "close" /\ Turn(o)
    /\ IF op[o].generation = 0 \/ ~Live(o)
       THEN /\ op' = [op EXCEPT ![o].phase = "active", ![o].completed = TRUE]
            /\ UNCHANGED <<cam, src, driver, count>>
       ELSE IF cam.close_state # 0
       THEN op' = Gone(op, o) /\ UNCHANGED <<cam, src, driver, count>>
       ELSE LET begun == [World(cam) EXCEPT !.cam.release_pending = TRUE, !.cam.close_state = o,
                                            !.op[o].phase = "active"]
                told == IF cam.capture_state # 0 THEN Cancelled(begun, cam.capture_state) ELSE begun
                lent == Revoked(told)
            IN /\ \E r \in (IF told.cam.leased_fb = 0 THEN {told} ELSE camera_release_frame(lent)) :
                     \E w \in camera_cleanup_if_ready(r) : Become(w)
               /\ src' = IF told.cam.leased_fb # 0 /\ cam.source # 0
                         THEN [src EXCEPT ![cam.source].consumed = TRUE] ELSE src
    /\ UNCHANGED <<obj, views>>

camera_close_worker(o) ==
    /\ op[o].kind = "close" /\ op[o].worker
    /\ \/ driver' = [driver EXCEPT !.up = FALSE] /\ UNCHANGED count /\ op' = [op EXCEPT ![o].worker = FALSE, ![o].completed = TRUE]
       \/ Fault /\ UNCHANGED driver /\ op' = [op EXCEPT ![o].worker = FALSE, ![o].completed = TRUE, ![o].failed = TRUE]
    /\ UNCHANGED <<cam, obj, src, views>>

\* camera_close_poll, then finish and destroy: the leases go with the driver, or
\* everything stays for another close.
camera_close_poll(o) ==
    /\ op[o].kind = "close" /\ op[o].phase = "active" /\ op[o].completed /\ Served
    /\ op' = Gone(op, o)
    /\ LET mine == Live(o) /\ cam.close_state = o
           kept == [cam EXCEPT !.release_pending = TRUE, !.close_state = 0]
           ended == cam' = NoCam /\ obj' = IF obj.cam = op[o].generation THEN [obj EXCEPT !.cam = 0] ELSE obj
       IN IF ~mine THEN UNCHANGED <<cam, obj, driver, count>>
          ELSE IF op[o].cleanup = "inline"
          THEN \/ ended /\ driver' = [driver EXCEPT !.up = FALSE] /\ UNCHANGED count
               \/ cam' = kept /\ Fault /\ UNCHANGED <<obj, driver>>
          ELSE IF op[o].failed THEN cam' = kept /\ UNCHANGED <<obj, driver, count>>
          ELSE ended /\ UNCHANGED <<driver, count>>
    /\ UNCHANGED <<src, views>>
-------------------------------------------------------------------------------
(* The frame, its source and its bitmap readers. *)

Readable == FrameValid(obj.frame)
Kept == \E s \in Sources : src[s].object   \* a source keeps its CameraFrame

js_camera_frame_close ==
    /\ obj.frame # 0
    /\ IF Readable
       THEN /\ cam.source = 0 /\ cam.bitmap_read_leases = 0
            /\ \E w \in camera_release_frame(World(cam)) : Become(w)
       ELSE UNCHANGED <<cam, op, driver, count>>
    /\ obj' = [obj EXCEPT !.frame = 0]
    /\ UNCHANGED <<src, views>>

js_camera_frame_finalizer ==
    /\ obj.frame # 0 /\ ~Kept /\ views = {}
    /\ IF FrameKept(obj.frame) THEN \E w \in camera_release_frame(World(cam)) : Become(w)
       ELSE UNCHANGED <<cam, op, driver, count>>
    /\ obj' = [obj EXCEPT !.frame = 0]
    /\ UNCHANGED <<src, views>>

js_camera_frame_source(s) ==
    /\ ~src[s].made /\ \A t \in 1 .. s - 1 : src[t].made
    /\ Readable /\ cam.source = 0 /\ cam.bitmap_read_leases = 0
    /\ src' = [src EXCEPT ![s] = [NoSource EXCEPT !.object = TRUE, !.frame = obj.frame, !.made = TRUE]]
    /\ cam' = [cam EXCEPT !.source = s]
    /\ UNCHANGED <<obj, views, op, driver, count>>

camera_source_open(s) ==
    /\ src[s].object /\ ~src[s].opened /\ ~src[s].consumed /\ FrameValid(src[s].frame)
    /\ src' = [src EXCEPT ![s].opened = TRUE, ![s].iterator = TRUE]
    /\ UNCHANGED <<cam, obj, views, op, driver, count>>

\* The frame goes back when its source is done with it.
LetGo(s) ==
    IF FrameKept(src[s].frame)
    THEN \E w \in camera_release_frame(World([cam EXCEPT !.source = IF @ = s THEN 0 ELSE @])) : Become(w)
    ELSE UNCHANGED <<cam, op, driver, count>>
camera_source_iterator_close(s) ==
    /\ src[s].iterator
    /\ src' = [src EXCEPT ![s].iterator = FALSE, ![s].consumed = TRUE]
    /\ LetGo(s)
    /\ UNCHANGED <<obj, views>>
camera_source_destroy(s) ==
    /\ src[s].object
    /\ IF src[s].iterator
       THEN /\ src' = [src EXCEPT ![s].object = FALSE, ![s].destroy_requested = TRUE, ![s].consumed = TRUE]
            /\ UNCHANGED <<cam, op, driver, count>>
       ELSE /\ src' = [src EXCEPT ![s] = [NoSource EXCEPT !.made = TRUE]]
            /\ LetGo(s)
    /\ UNCHANGED <<obj, views>>

camera_frame_acquire_bitmap_view ==
    /\ Readable /\ cam.source = 0 /\ views = {}
    /\ cam' = [cam EXCEPT !.bitmap_read_leases = @ + 1]
    /\ views' = {obj.frame}
    /\ UNCHANGED <<obj, src, op, driver, count>>
camera_frame_release_bitmap_view ==
    /\ views # {} /\ views' = {}
    /\ LET f == CHOOSE v \in views : TRUE
           c == [cam EXCEPT !.bitmap_read_leases = IF FrameKept(f) THEN @ - 1 ELSE @]
       IN \E w \in (IF c.frame_revoked THEN camera_release_frame(World(c))
                    ELSE camera_cleanup_if_ready(World(c))) : Become(w)
    /\ UNCHANGED <<obj, src>>

Next ==
    \/ js_camera_open \/ js_camera_open_pending \/ js_camera_finalizer \/ deinit_camera_runtime
    \/ \E o \in Ids : \/ camera_capture_prepare(o) \/ camera_capture_start(o) \/ camera_capture_worker(o)
                      \/ camera_capture_cancel(o) \/ camera_capture_finish(o)
                      \/ camera_close_prepare(o) \/ camera_close_start(o) \/ camera_close_worker(o)
                      \/ camera_close_poll(o)
    \/ js_camera_frame_close \/ js_camera_frame_finalizer
    \/ \E s \in Sources : \/ js_camera_frame_source(s) \/ camera_source_open(s)
                          \/ camera_source_iterator_close(s) \/ camera_source_destroy(s)
    \/ camera_frame_acquire_bitmap_view \/ camera_frame_release_bitmap_view

Spec == Init /\ [][Next]_vars
-------------------------------------------------------------------------------
\* The driver stays up under a capture's worker, and under whoever reads the
\* frame: an iterator or a bitmap operation.
DriverHeld ==
    /\ \A o \in Ids : op[o].kind = "capture" /\ op[o].worker => driver.up
    /\ \A s \in Sources : src[s].iterator => driver.up /\ FrameKept(src[s].frame)
    /\ \A f \in views : driver.up /\ FrameKept(f)
    /\ driver.out # {} => driver.up

\* Each frame buffer the driver has given out is lent or held by one capture,
\* so that none is lost and a closed camera has them all back.
FramesOwned ==
    driver.out = ({cam.leased_fb} \union {op[o].frame : o \in Ids}) \ {0}

\* Revoked data cannot be reached any more: nobody starts to read the frame of
\* a camera that is being closed.
RevokedIsClosed ==
    /\ cam.close_state # 0 => cam.release_pending /\ ~Readable
    /\ cam.source # 0 => src[cam.source].made /\ FrameKept(src[cam.source].frame)

\* The leases of the peripherals go only after the driver, and a camera nobody
\* can reach is closed unless the driver refused.
LeasesFollowDriver ==
    /\ driver.up => cam.leases \/ \E o \in Ids : op[o].kind = "close" /\ Owns(o)
    /\ (obj.cam = 0 \/ cam.generation # obj.cam) /\ cam.allocated /\ count.faults = 0
          => cam.busy \/ cam.leased_fb # 0

CameraSafe == DriverHeld /\ FramesOwned /\ RevokedIsClosed /\ LeasesFollowDriver
=============================================================================
