------------------------------ MODULE UserData ------------------------------
(***************************************************************************)
(* The captions carried in the user data of the video (io/Userdata.c and    *)
(* UserdataDriver.c).  The driver (external) delivers one record per        *)
(* picture, in the order in which pictures are decoded; the thread of the  *)
(* device puts the captions into the order in which they are displayed and  *)
(* writes them into a ring of packages, from which the caption thread       *)
(* reads.  A package fits whole or is dropped.  The device has two users, the *)
(* caption thread and UserDataAfd; both leave the captions switched on.      *)
(*                                                                         *)
(* A record is read whole and its caption is its place in the stream; the   *)
(* presentation time of every record is valid.  Allocation does not fail.   *)
(***************************************************************************)
EXTENDS Integers, Sequences, SequencesExt, FiniteSets, FiniteSetsExt

CONSTANTS
    Streams,        \* of records [fmt, type, poc, pts, time, cc]: the time at
                    \* which the picture is displayed; whether it has a caption
    LostTypes,      \* the pictures whose record may be lost
    MAX_CC_NUM,
    USERDATA_BUF_SIZE, PackageSize   \* bytes of the ring, of a package

ASSUME UserDataAssumption ==
    /\ MAX_CC_NUM \in Nat \ {0} /\ USERDATA_BUF_SIZE \in Nat /\ PackageSize \in Nat
    /\ Streams \subseteq Seq([fmt : {"scte", "mpeg", "h264"}, type : {"I", "P", "B"}, poc : Nat,
                              pts : Nat, time : Nat, cc : BOOLEAN])

VARIABLES
    stream, framesDecoded,     \* the video and how many of its records came
    video_pts,           \* what MediaSync answers
    users, open_cnt,   \* who has opened the device, and its own count
    ud,                  \* [list, cc_num, curr_poc, scte_enable, flush]
    toWrite,             \* packages that the thread is about to write
    pkg_buf, written, received, missed   \* the ring; ghosts

udVars == <<stream, framesDecoded, video_pts, users, open_cnt, ud, toWrite, pkg_buf,
            written, received, missed>>

NewDriver == [list |-> <<>>, cc_num |-> 0, curr_poc |-> -1, scte_enable |-> TRUE, flush |-> TRUE]

UserDataInit ==
    /\ stream \in Streams /\ framesDecoded = 0 /\ video_pts = 0
    /\ users = {} /\ open_cnt = 0 /\ ud = NewDriver
    /\ toWrite = <<>> /\ pkg_buf = <<>> /\ written = <<>> /\ received = <<>> /\ missed = {}

-----------------------------------------------------------------------------
(* The list of captions that wait; `out` collects the packages to write        *)

aml_flush_cc_data(w) ==
    [w EXCEPT !.out = @ \o w.list, !.list = <<>>, !.cc_num = 0, !.curr_poc = -1]

\* By time, then by picture; the new one goes behind those equal to it
Before(a, b) == a.pts < b.pts \/ (a.pts = b.pts /\ a.poc <= b.poc)

aml_add_cc_data(w, cc) ==
    LET u == IF w.cc_num < MAX_CC_NUM THEN w
             ELSE [w EXCEPT !.out = Append(@, Head(w.list)), !.list = Tail(@), !.cc_num = @ - 1]
        v == IF u.list # <<>> /\ cc.poc < Head(u.list).poc - 30 THEN aml_flush_cc_data(u) ELSE u
        i == Min({j \in DOMAIN v.list : ~Before(v.list[j], cc)} \cup {Len(v.list) + 1})
    IN [v EXCEPT !.list = InsertAt(@, i, cc), !.cc_num = @ + 1]

\* A caption that is next in order goes out at once, and with it the run of
\* captions that waited for it; cc_num is left as it is
aml_mpeg_userdata_package(w, type, cc) ==
    LET u == IF type = "I" THEN aml_flush_cc_data(w) ELSE w
        gaps == {i \in DOMAIN u.list : u.list[i].poc # cc.poc + i}
        n == Min({i - 1 : i \in gaps} \cup {Len(u.list)})
    IN IF cc.poc \notin {u.curr_poc, u.curr_poc + 1} THEN aml_add_cc_data(u, cc)
       ELSE [u EXCEPT !.out = Append(@, cc) \o SubSeq(u.list, 1, n),
                      !.list = SubSeq(@, n + 1, Len(@)), !.curr_poc = cc.poc + n]

\* The pictures of this format carry no time
aml_process_scte_userdata(w, type, cc) ==
    LET u == IF type = "I" THEN aml_flush_cc_data(w) ELSE w IN
    IF ~w.scte_enable THEN w
    ELSE IF cc.cc THEN aml_add_cc_data(u, [cc EXCEPT !.pts = 0])
    ELSE u

\* What is due at the time of the video, and what is not
DueAndKept(list) ==
    LET upTo[k \in 0..Len(list)] ==
          IF k = 0 THEN [due |-> <<>>, kept |-> <<>>]
          ELSE IF video_pts > list[k].pts
          THEN [due |-> Append(upTo[k - 1].due, list[k]), kept |-> upTo[k - 1].kept]
          ELSE [due |-> upTo[k - 1].due, kept |-> Append(upTo[k - 1].kept, list[k])]
    IN  upTo[Len(list)]

aml_h264_userdata_package(w, cc) ==
    LET u == aml_add_cc_data(IF cc.poc = 0 THEN aml_flush_cc_data(w) ELSE w, cc)
        due == DueAndKept(u.list).due
    IN [u EXCEPT !.out = @ \o due, !.cc_num = @ - Len(due), !.list = DueAndKept(@).kept,
                 !.curr_poc = IF due = <<>> THEN @ ELSE Last(due).poc]

Process(rec) ==
    LET w == [list |-> ud.list, cc_num |-> ud.cc_num, curr_poc |-> ud.curr_poc,
              scte_enable |-> ud.scte_enable, flush |-> ud.flush, out |-> <<>>] IN
    CASE rec.fmt = "scte" -> aml_process_scte_userdata(w, rec.type, rec)
      [] rec.fmt = "mpeg" ->
           LET v == [w EXCEPT !.scte_enable = FALSE] IN
           IF rec.cc THEN aml_mpeg_userdata_package(v, rec.type, rec) ELSE v
      [] rec.fmt = "h264" -> IF rec.cc THEN aml_h264_userdata_package(w, rec) ELSE w

-----------------------------------------------------------------------------
(* The thread of the device                                                    *)

Numbered(rec, k) == [fmt |-> rec.fmt, type |-> rec.type, poc |-> rec.poc, pts |-> rec.pts,
                     time |-> rec.time, cc |-> rec.cc, n |-> k]

\* The first time that there is something to read, the driver is emptied
FlushDriver ==
    /\ open_cnt > 0 /\ ud.flush /\ framesDecoded < Len(stream)
    /\ ud' = [ud EXCEPT !.flush = FALSE]
    /\ UNCHANGED <<stream, framesDecoded, video_pts, users, open_cnt, toWrite, pkg_buf, written,
                   received, missed>>

ReadRecord ==
    /\ open_cnt > 0 /\ ~ud.flush /\ framesDecoded < Len(stream) /\ toWrite = <<>>
    /\ framesDecoded' = framesDecoded + 1
    /\ LET rec == stream[framesDecoded + 1]
           w == Process(Numbered(rec, framesDecoded + 1)) IN
       \/ /\ ud' = [list |-> w.list, cc_num |-> w.cc_num, curr_poc |-> w.curr_poc,
                    scte_enable |-> w.scte_enable, flush |-> w.flush]
          /\ toWrite' = w.out
          /\ missed' = IF rec.cc /\ (rec.fmt = "scte" => ud.scte_enable)
                       THEN missed ELSE missed \cup {framesDecoded + 1}
       \/ /\ rec.type \in LostTypes
          /\ missed' = missed \cup {framesDecoded + 1} /\ UNCHANGED <<ud, toWrite>>
    /\ UNCHANGED <<stream, video_pts, users, open_cnt, pkg_buf, written, received>>

\* A picture is shown only after those before it have been framesDecoded
VideoPlays ==
    /\ video_pts' = video_pts + 1
    /\ \A i \in framesDecoded + 1 .. Len(stream) : stream[i].time > video_pts
    /\ video_pts <= Len(stream)
    /\ UNCHANGED <<stream, framesDecoded, users, open_cnt, ud, toWrite, pkg_buf, written, received,
                   missed>>

userdata_ring_buf_free == USERDATA_BUF_SIZE - 1 - Len(pkg_buf) * (PackageSize + 4)

userdata_package_write ==
    /\ toWrite # <<>> /\ toWrite' = Tail(toWrite)
    /\ written' = Append(written, Head(toWrite).n)
    /\ IF userdata_ring_buf_free >= PackageSize + 4
       THEN pkg_buf' = Append(pkg_buf, Head(toWrite).n) /\ UNCHANGED missed
       ELSE missed' = missed \cup {Head(toWrite).n} /\ UNCHANGED pkg_buf
    /\ UNCHANGED <<stream, framesDecoded, video_pts, users, open_cnt, ud, received>>

-----------------------------------------------------------------------------
(* The users of the device.  Whoever closes it closes it for the other, too:   *)
(* UserdataClose counts down to zero.  The join in it waits until the thread   *)
(* has written what it had in hand.                                            *)

UserdataOpen(u) ==
    /\ u \notin users /\ users' = users \cup {u} /\ open_cnt' = open_cnt + 1
    /\ IF open_cnt = 0 THEN ud' = NewDriver /\ pkg_buf' = <<>> ELSE UNCHANGED <<ud, pkg_buf>>
    /\ UNCHANGED <<stream, framesDecoded, video_pts, toWrite, written, received, missed>>

UserdataRead ==
    /\ "cc" \in users /\ open_cnt > 0 /\ pkg_buf # <<>>
    /\ pkg_buf' = Tail(pkg_buf) /\ received' = Append(received, Head(pkg_buf))
    /\ UNCHANGED <<stream, framesDecoded, video_pts, users, open_cnt, ud, toWrite, written, missed>>

UserdataClose(u) ==
    /\ u \in users /\ users' = users \ {u} /\ toWrite = <<>> /\ open_cnt' = 0
    /\ IF open_cnt = 0 THEN UNCHANGED <<missed, ud, pkg_buf>>
       ELSE /\ missed' = missed \cup {ud.list[i].n : i \in DOMAIN ud.list} \cup ToSet(pkg_buf)
            /\ ud' = NewDriver /\ pkg_buf' = <<>>
    /\ UNCHANGED <<stream, framesDecoded, video_pts, toWrite, written, received>>

UserDataNext ==
    \/ FlushDriver
    \/ ReadRecord
    \/ VideoPlays
    \/ userdata_package_write
    \/ UserdataRead
    \/ \E u \in {"cc", "afd"} : UserdataOpen(u) \/ UserdataClose(u)

UserDataSpec == UserDataInit /\ [][UserDataNext]_udVars

-----------------------------------------------------------------------------
(* Every caption is where it should be exactly once: waiting, in the ring,     *)
(* received, or counted as missed.                                             *)
CaptionsKept ==
    LET all == received \o pkg_buf
        waiting == {ud.list[i].n : i \in DOMAIN ud.list} \cup {toWrite[i].n : i \in DOMAIN toWrite}
    IN /\ IsInjective(all) /\ ToSet(all) \subseteq ToSet(written)
       /\ 1..framesDecoded = waiting \cup ToSet(all) \cup missed
       /\ Cardinality(waiting) + Cardinality(ToSet(all)) + Cardinality(missed) = framesDecoded

(* The caption thread gets the captions in the order in which their pictures   *)
(* are displayed, although they arrive in the order of decoding and some do    *)
(* not arrive, as long as no picture that starts a group is lost; and none is  *)
(* lost or doubled on the way (aml_mpeg_userdata_package, aml_add_cc_data,     *)
(* userdata_package_write).                                                    *)
CaptionsInOrder ==
    /\ \A i, j \in DOMAIN written :
          i < j => stream[written[i]].time <= stream[written[j]].time
    /\ CaptionsKept
=============================================================================
