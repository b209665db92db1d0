----------------------------- MODULE MCBootRepack -----------------------------
(* Sources of a few pages of four cells, with parts that end on, before    *)
(* and behind a page boundary, and with the sources the scripts refuse.    *)
EXTENDS BootRepack, TLC

AnyCell  == STRING \X Nat
ZeroCell == << "zero", 0 >>

Payload(name, n) == [i \in 1 .. n |-> << name, i >>]

PartsOf(k, r, s, o, d) ==
  [kernel |-> Payload("kernel", k), ramdisk |-> Payload("ramdisk", r),
   second |-> Payload("second", s), recovery_dtbo |-> Payload("dtbo", o),
   dtb |-> Payload("dtb", d)]

(* As mkbootimg lays it out, with gap pages before the recovery part.      *)
Filled(payload, page) ==
  payload \o Zeros(PagesFor(Len(payload), page) * page - Len(payload))

Source(parts, page, gap, named, length) ==
  LET front == Filled(parts.kernel, page) \o Filled(parts.ramdisk, page)
               \o Filled(parts.second, page) \o Zeros(gap * page)
      body  == front \o Filled(parts.recovery_dtbo, page) \o parts.dtb
  IN  [magic |-> TRUE, version |-> 2, page |-> page, size |-> Sizes(parts),
       dtboAt |-> IF named THEN page + Len(front) ELSE 0,
       id |-> "original", rest |-> "board",
       body |-> body \o Zeros(length - page - Len(body))]

LockOf(img) ==
  [image |-> img, version |-> img.version, page |-> img.page, size |-> img.size]

Gzip(n) == [gzip |-> TRUE, data |-> Payload("newkernel", n)]
Dtb(n)  == [valid |-> TRUE, data |-> Payload("newdtb", n)]

Job(source, parts, script, kernel, dtb) ==
  [source |-> source, lock |-> LockOf(source), parts |-> parts,
   script |-> script, kernel |-> kernel, dtb |-> dtb]

Plain == PartsOf(5, 4, 0, 0, 3)
Full  == PartsOf(4, 5, 1, 3, 4)

PlainSource == Source(Plain, 4, 0, FALSE, 36)
FullSource  == Source(Full, 4, 0, TRUE, 36)
GapSource   == Source(Full, 4, 1, TRUE, 36)
Tight       == Source(Full, 4, 0, TRUE, 28)
Ragged      == Source(Plain, 4, 0, FALSE, 19)
Wide        == Source(Plain, 8, 0, FALSE, 36)

GoodJobs ==
  {Job(PlainSource, Plain, "38", Gzip(n), Dtb(1)) : n \in {4, 9, 21, 25}}
  \cup {Job(s, Full, "76", Gzip(n), Dtb(m)) :
          s \in {FullSource, GapSource}, n \in {4, 5, 9}, m \in {4, 5}}
  \cup {Job(Tight, Full, "76", Gzip(n), Dtb(4)) : n \in {4, 5}}
  \cup {Job(Ragged, Plain, "38", Gzip(5), Dtb(1)), Job(Wide, Plain, "38", Gzip(8), Dtb(1))}

Spoilt ==
  LET j == Job(FullSource, Full, "76", Gzip(4), Dtb(4))
      Of(src) == [j EXCEPT !.source = src, !.lock = LockOf(src)]
  IN  { [j EXCEPT !.source.body[3] = Zero], Of([FullSource EXCEPT !.magic = FALSE]),
        Of([FullSource EXCEPT !.version = 1]), Of([FullSource EXCEPT !.page = 3]),
        Of([FullSource EXCEPT !.size.dtb = 99]),
        [Of([FullSource EXCEPT !.size.dtb = 0]) EXCEPT !.parts.dtb = <<>>],
        [j EXCEPT !.kernel.gzip = FALSE], [j EXCEPT !.dtb.valid = FALSE],
        [j EXCEPT !.dtb.data = Full.dtb], [j EXCEPT !.lock.page = 8] }

AllJobs == GoodJobs \cup Spoilt

TheDevices ==
  { [supported |-> TRUE, extracts |-> TRUE, bytes |-> 40],
    [supported |-> TRUE, extracts |-> TRUE, bytes |-> 32],
    [supported |-> TRUE, extracts |-> FALSE, bytes |-> 40],
    [supported |-> FALSE, extracts |-> TRUE, bytes |-> 40] }
==============================================================================
