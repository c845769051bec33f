-------------------------------- MODULE Cursor --------------------------------
(***************************************************************************)
(* A theme of the cursor library (wayland-cursor.c), which keeps the images*)
(* of its cursors in a wl_shm pool that grows, and the compositor of Shm   *)
(* that serves its requests in their order, some time later.  Instead of   *)
(* the library the client may be any other.                                *)
(*                                                                         *)
(* An image takes one page for each page of its width, in one row: its     *)
(* stride is its width and its height 1.                                   *)
(*                                                                         *)
(* Which image of an animation is shown when is a computation apart.       *)
(***************************************************************************)
EXTENDS Shm, SequencesExt

CONSTANTS
    ImageSizes,   \* sizes of a theme and of its images
    Delays,       \* milliseconds that images of an animation are shown for
    MaxImages,    \* bound: images of a theme, few enough for its pool to stay
                  \* below INT32_MAX however it grows
    MmapFails,    \* whether mmap may fail when the library's pool grows: what it
                  \* asks for next may then be less than it has asked for
    NoId

ASSUME CursorAssumption ==
    /\ ImageSizes \subseteq Nat \ {0} /\ MaxImages \in Nat \ {0}
    /\ \E largest \in 0 .. INT32_MAX :
          /\ \A n \in ImageSizes : n <= largest
          /\ largest * (2 * MaxImages + 1) <= INT32_MAX
    /\ Delays \subseteq 0 .. 2 * INT32_MAX + 1
    /\ MmapFails \in BOOLEAN /\ NoId \notin Buffers

VARIABLES
    library,   \* whether the client is one that uses the library
    theme,     \* struct wl_cursor_theme with its struct shm_pool
    images,    \* struct cursor_image: offset, size and buffer
    wire       \* requests that the compositor has not read

libVars == <<library, theme, images, wire>>
allVars == <<vars, libVars>>

NoTheme == [stage |-> "none", pool |-> NoPool, size |-> 0, used |-> 0, mapped |-> FALSE]

LibTypeOK ==
    /\ library \in BOOLEAN
    /\ theme \in [stage : {"none", "loading", "loaded", "gone", "crashed"},
                  pool : Pools \cup {NoPool}, size : Nat, used : Nat, mapped : BOOLEAN]
    /\ images \subseteq [offset : Nat, size : ImageSizes, buffer : Buffers \cup {NoId}]
    /\ wire \in Seq([op : {"create_pool", "resize", "create_buffer",
                           "destroy_buffer", "destroy_pool"},
                     id : Pools \cup Buffers, offset : Nat, size : Nat])

CursorInit ==
    /\ Init
    /\ library \in BOOLEAN
    /\ theme = NoTheme /\ images = {} /\ wire = <<>>

-----------------------------------------------------------------------------
(* The library.                                                            *)
Req(op, id, offset, size) == [op |-> op, id |-> id, offset |-> offset, size |-> size]

(* The client runs while it has not crashed, whatever the compositor does. *)
Runs == library /\ ~killed /\ client = "open"

Compositors == <<anonymous, pool, buffer, refs, threadVars, error, client, killed>>

(* wl_cursor_theme_load, up to xcursor_load_theme: os_create_anonymous_file*)
(* and mmap succeed, or the call returns NULL.                             *)
wl_cursor_theme_load(p, size) ==
    /\ Runs /\ theme.stage = "none"
    /\ \/ /\ theme' = [theme EXCEPT !.stage = "gone"]
          /\ UNCHANGED <<file, wire>>
       \/ /\ file' = [file EXCEPT ![p] = size]
          /\ theme' = [stage |-> "loading", pool |-> p, size |-> size, used |-> 0,
                       mapped |-> TRUE]
          /\ wire' = Append(wire, Req("create_pool", p, 0, size))
    /\ UNCHANGED <<Compositors, library, images>>

(* shm_pool_resize fails: ftruncate or posix_fallocate does, or mmap, after*)
(* the request and munmap.                                                 *)
ResizeFails(p, size) ==
    \/ /\ file' \in {file, [file EXCEPT ![p] = size]}
       /\ UNCHANGED <<theme, wire>>
    \/ /\ MmapFails
       /\ file' = [file EXCEPT ![p] = size]
       /\ wire' = Append(wire, Req("resize", p, 0, size))
       /\ theme' = [theme EXCEPT !.mapped = FALSE]

(* An image of a cursor: shm_pool_allocate, then memcpy into the mapping,  *)
(* where the process dies if there is none.                                *)
Image(offset, size) == [offset |-> offset, size |-> size, buffer |-> NoId]

(* Mutation: the pool is doubled, which may not be enough.                 *)
Doubled(n) == 2 * theme.size

(* The size asked for when n pages more do not fit.                        *)
Grown(n) == 2 * theme.size + n

CreateImage(n) ==
    /\ Runs /\ theme.stage = "loading" /\ Cardinality(images) < MaxImages
    /\ IF theme.used + n <= theme.size
       THEN /\ IF theme.mapped
               THEN /\ images' = images \cup {Image(theme.used, n)}
                    /\ theme' = [theme EXCEPT !.used = @ + n]
               ELSE /\ theme' = [theme EXCEPT !.stage = "crashed"]
                    /\ UNCHANGED images
            /\ UNCHANGED <<file, wire>>
       ELSE \/ ResizeFails(theme.pool, Grown(n)) /\ UNCHANGED images
            \/ /\ file' = [file EXCEPT ![theme.pool] = Grown(n)]
               /\ wire' = Append(wire, Req("resize", theme.pool, 0, Grown(n)))
               /\ theme' = [theme EXCEPT !.used = @ + n, !.size = Grown(n),
                                         !.mapped = TRUE]
               /\ images' = images \cup {Image(theme.used, n)}
    /\ UNCHANGED <<Compositors, library>>

(* load_callback and load_default_theme have put the images into cursors.  *)
Loaded ==
    /\ Runs /\ theme.stage = "loading"
    /\ theme' = [theme EXCEPT !.stage = "loaded"]
    /\ UNCHANGED <<file, Compositors, library, images, wire>>

(* The id is free when the compositor has confirmed the deletion of the    *)
(* object that had it.                                                     *)
FreeIds ==
    {b \in Buffers : ~buffer[b].made
                     /\ \A i \in 1 .. Len(wire) : wire[i].id # b}

wl_cursor_image_get_buffer(image, b) ==
    /\ Runs /\ theme.stage = "loaded"
    /\ image \in images /\ image.buffer = NoId
    /\ b \in FreeIds
    /\ images' = (images \ {image}) \cup {[image EXCEPT !.buffer = b]}
    /\ wire' = Append(wire, Req("create_buffer", b, image.offset, image.size))
    /\ UNCHANGED <<file, Compositors, library, theme>>

(* wl_cursor_theme_destroy: the images with their buffers, then the pool.  *)
wl_cursor_theme_destroy ==
    /\ Runs /\ theme.stage = "loaded"
    /\ LET bs == {image.buffer : image \in images} \ {NoId}
       IN  \E order \in [1 .. Cardinality(bs) -> bs] :
              /\ {order[i] : i \in DOMAIN order} = bs
              /\ wire' = wire \o [i \in DOMAIN order |->
                                     Req("destroy_buffer", order[i], 0, 0)]
                              \o <<Req("destroy_pool", theme.pool, 0, 0)>>
    /\ theme' = [theme EXCEPT !.stage = "gone"]
    /\ images' = {}
    /\ UNCHANGED <<file, Compositors, library>>

Library ==
    \/ \E p \in Pools, n \in ImageSizes : wl_cursor_theme_load(p, n)
    \/ \E n \in ImageSizes : CreateImage(n)
    \/ Loaded
    \/ \E image \in images, b \in Buffers : wl_cursor_image_get_buffer(image, b)
    \/ wl_cursor_theme_destroy

-----------------------------------------------------------------------------
(* The compositor takes the next request.                                  *)
Receive ==
    /\ library /\ wire # <<>>
    /\ LET q == Head(wire)
       IN  \/ q.op = "create_pool" /\ shm_create_pool(q.id, q.size)
           \/ q.op = "resize" /\ shm_pool_resize(q.id, q.size)
           \/ /\ q.op = "create_buffer"
              /\ shm_pool_create_buffer(theme.pool, q.id, q.offset, q.size, 1, q.size)
           \/ Request /\ q.op = "destroy_buffer" /\ DestroyBuffer(q.id)
           \/ Request /\ q.op = "destroy_pool" /\ DestroyPool(q.id)
    /\ wire' = Tail(wire)
    /\ UNCHANGED <<library, theme, images>>

CursorNext ==
    \/ Compositor /\ UNCHANGED libVars
    \/ ~library /\ AnyClient /\ UNCHANGED libVars
    \/ Library
    \/ Receive

CursorSpec == CursorInit /\ [][CursorNext]_allVars

-----------------------------------------------------------------------------
(* Animations, of more than one image.  Sums and differences are uint32_t. *)
Unsigned(n) == n % (2 * INT32_MAX + 2)

total_delay(delays) == FoldLeft(LAMBDA n, d : Unsigned(n + d), 0, delays)

(* wl_cursor_frame_and_duration: the loop goes on while t - delay < t.     *)
wl_cursor_frame_and_duration(delays, time) ==
    LET Step(s, d) ==
            IF s.over \/ Unsigned(s.t - d) >= s.t THEN [s EXCEPT !.over = TRUE]
            ELSE [s EXCEPT !.i = @ + 1, !.t = @ - d]
        s == FoldLeft(Step, [i |-> 1, t |-> time % total_delay(delays), over |-> FALSE],
                      delays)
    IN  [image    |-> s.i,
         duration |-> IF s.t >= delays[s.i] THEN 1 ELSE delays[s.i] - s.t]

(* "If there is a 0 delay in the image set then this loop breaks on it and *)
(* we display that cursor until time % cursor->total_delay wraps again":   *)
(* otherwise the image is that in whose turn the time falls, and who waits *)
(* for the duration finds the next one; and it is never said to be static. *)
(* (Delays that sum up to 0, in 32 bits, are a division by zero.)          *)
AnimationsGoOn ==
    \A n \in 2 .. MaxImages : \A delays \in TupleOf(Delays, n) :
      \A time \in 0 .. 2 * INT32_MAX + 1 :
        total_delay(delays) > 0 =>
            LET shown  == wl_cursor_frame_and_duration(delays, time)
                t      == time % total_delay(delays)
                before == FoldLeft(+, 0, SubSeq(delays, 1, shown.image - 1))
                after  == wl_cursor_frame_and_duration(delays, time + shown.duration)
            IN  /\ \A k \in 1 .. shown.image - 1 : delays[k] > 0
                /\ before <= t
                /\ t < before + delays[shown.image] \/ delays[shown.image] = 0
                /\ shown.duration > 0
                /\ (/\ 0 \notin Range(delays)
                    /\ FoldLeft(+, 0, delays) = total_delay(delays)
                    /\ time + shown.duration <= 2 * INT32_MAX + 1) =>
                       after.image = (shown.image % Len(delays)) + 1
-----------------------------------------------------------------------------
(* shm_pool_allocate and shm_pool_resize on the client and the requests    *)
(* that follow them: the images do not overlap, the file is as long as the *)
(* compositor will ever be told, and the compositor finds nothing to refuse*)
(* and no page missing, however far behind it is and wherever the library  *)
(* runs out of space.                                                      *)
LibraryRespected ==
    library =>
        /\ error # "refused" /\ anonymous = {}
        /\ \A i, j \in images :
              i # j => i.offset + i.size <= j.offset \/ j.offset + j.size <= i.offset

(* What the library promises the compositor, and its types                 *)
CursorInv == LibTypeOK /\ LibraryRespected /\ AnimationsGoOn
=============================================================================
