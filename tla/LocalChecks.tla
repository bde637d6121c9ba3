----------------------------- MODULE LocalChecks ----------------------------
(***************************************************************************)
(* Plugins that judge one reading of the machine they run on:              *)
(* check_linux_ram.py, check_linux_disk_mounts_read_only.py, both          *)
(* check_docker_image.py, and the adapters that run another plugin and     *)
(* translate its result.                                                   *)
(***************************************************************************)
EXTENDS PluginStep

-----------------------------------------------------------------------------
(* check_linux_ram.py, in KB *)

RamWorlds == [total : {2097152}, free : {104857, 209716, 524288}, cached : {0, 104858, 1048576}, meminfo : {TRUE}]
             \cup [total : {2097152}, free : {0}, cached : {0}, meminfo : {FALSE}]

\* A threshold as it is given: a number and what follows it.
RamAmount(num, unit) == [num |-> num, unit |-> unit]
NotGiven == RamAmount(0, "none")
RamOptions ==
    [warn : {RamAmount(10, "%"), RamAmount(101, "%"), RamAmount(300, "M"), RamAmount(1, "GB"),
             RamAmount(209716, ""), RamAmount(209716, "KB"), NotGiven},
     crit : {RamAmount(5, "%"), RamAmount(20, "%"), RamAmount(102400, ""), RamAmount(200, "MB"), NotGiven},
     nocache : BOOLEAN]

RamKb(t) ==
    CASE t.unit \in {"MB", "M"} -> t.num * 1024
      [] t.unit \in {"GB", "G"} -> t.num * 1024 * 1024
      [] OTHER -> t.num

\* The exit code of an option error is the state itself for percentages.
RamUsage(o) ==
    CASE NotGiven \in {o.warn, o.crit} -> "UNKNOWN"
      [] "KB" \in {o.warn.unit, o.crit.unit} -> "UNKNOWN"
      [] (o.warn.unit = "%") # (o.crit.unit = "%") -> "UNKNOWN"
      [] o.warn.unit = "%" /\ o.warn.num > 100 -> "WARNING"
      [] o.crit.unit = "%" /\ o.crit.num > 100 -> "CRITICAL"
      [] RamKb(o.warn) <= RamKb(o.crit) -> "UNKNOWN"
      [] OTHER -> "valid"

CheckRam(o, a) ==
    LET totalFree == IF o.nocache THEN a.free ELSE a.free + a.cached
        value == IF o.warn.unit = "%" THEN (100 * totalFree) \div a.total ELSE totalFree
    IN  CheckLower(value, RamKb(o.warn), RamKb(o.crit))

RamStep(o, seen) ==
    CASE RamUsage(o) # "valid" -> Exit(RamUsage(o))
      [] seen = <<>> -> Ask("meminfo")
      [] ~seen[1].meminfo -> Exit("CRITICAL")
      [] OTHER -> Exit(CheckRam(o, seen[1]))

\* A threshold is a share of the memory or an amount of it.
RamEnough(t, free, total) == IF t.unit = "%" THEN free * 100 >= t.num * total ELSE free >= RamKb(t)
RamHolds(c, o, w) ==
    LET free == IF o.nocache THEN w.free ELSE w.free + w.cached
    IN  RamEnough(IF c = "warn" THEN o.warn ELSE o.crit, free, w.total)

-----------------------------------------------------------------------------
(* check_linux_disk_mounts_read_only.py: mount points with their options *)

Mounts == {"/", "/data", "/mnt/cdrom", "/proc/sys", "/sys/fs"}
SystemMounts == {"/proc/sys", "/sys/fs"}
MountWorlds ==
    [ro : SUBSET Mounts, mounted : {Mounts}, readable : {TRUE}]
    \cup [ro : {{}}, mounted : {SystemMounts}, readable : BOOLEAN]
MountOptions == [include : {Mounts, {"/data"}, {}}, exclude : {{}, {"/mnt/cdrom"}, {"/data", "/mnt/cdrom"}}]

ParseMounts(o, a) == ((a.mounted \ SystemMounts) \cap o.include) \ o.exclude
MountRun(o, a) ==
    LET checked == ParseMounts(o, a)
    IN  IF checked \cap a.ro # {} THEN "CRITICAL" ELSE If(checked = {}, "WARNING")

MountStep(o, seen) ==
    CASE seen = <<>> -> Ask("/proc/mounts")
      [] ~seen[1].readable -> Exit("UNKNOWN")
      [] OTHER -> Exit(MountRun(o, seen[1]))

MountClaims(o, w) == {"some"} \cup {m \in w.mounted \ SystemMounts : m \in o.include /\ m \notin o.exclude}
MountHolds(c, o, w) ==
    IF c = "some" THEN \E m \in w.mounted \ SystemMounts : m \in o.include /\ m \notin o.exclude
    ELSE c \notin w.ro

-----------------------------------------------------------------------------
(* older/check_docker_image.py asks "docker images", check_docker_image.py *)
(* the API.  An image has tags of one repository; "<none>" is a dangling   *)
(* one, which the command lists and the API does not know.                 *)

Image(id, tag, size) == [id |-> id, tag |-> tag, size |-> size]
ImageLists ==
    {<<>>, <<Image("sha1", "latest", 5)>>, <<Image("sha2", "latest", 9)>>,
     <<Image("sha1", "latest", 5), Image("sha2", "1.0", 5)>>,
     <<Image("sha2", "<none>", 5), Image("sha1", "latest", 5)>>}
ImageWorlds == [images : ImageLists, docker : {"works"}, cli : BOOLEAN]
               \cup [images : {<<>>}, docker : {"absent", "error", "silent", "other header"}, cli : {TRUE}]
ImageOptions == [id : {"none", "sha1", "sha9"}, crit : {NoLimit, 7}]

CheckImageId(o, image) == If(o.id # "none" /\ image.id # o.id, "CRITICAL")
CheckImageSize(o, image) == CheckUpper(image.size, NoLimit, o.crit)

ImageTags(images) == {images[i].tag : i \in DOMAIN images} \ {"<none>"}
ParseImages(o, images) ==
    CASE images = <<>> -> "CRITICAL"
      [] Cardinality(ImageTags(images)) > 1 -> "UNKNOWN"
      [] OTHER -> Both(CheckImageId(o, images[1]), CheckImageSize(o, images[1]))

OldImageRun(o, a) == IF a.docker # "works" THEN Exit("UNKNOWN") ELSE Exit(ParseImages(o, a.images))

ApiImageCheck(o, a) ==
    LET tagged == {i \in DOMAIN a.images : a.images[i].tag = "latest"}
    IN  IF tagged = {} THEN Exit("CRITICAL")
        ELSE LET image == a.images[CHOOSE i \in tagged : TRUE]
             IN  Exit(Both(CheckImageId(o, image), CheckImageSize(o, image)))

ImageStep(o, seen) ==
    CASE seen = <<>> -> Ask("image")
      [] seen[1].cli -> OldImageRun(o, seen[1])
      [] OTHER -> ApiImageCheck(o, seen[1])

\* What OK vouches for: an image of the repository that is as expected.
ImageHolds(c, o, w) ==
    \E i \in DOMAIN w.images : /\ o.id = "none" \/ w.images[i].id = o.id
                               /\ o.crit = NoLimit \/ w.images[i].size <= o.crit

\* The first line of the command may be a dangling image of the repository.
ImageExcuses(w) == w.cli /\ w.images # <<>> /\ w.images[1].tag = "<none>"

-----------------------------------------------------------------------------
(* adapter_csv.py and its two heirs.  The result of a plugin is an exit    *)
(* code or the end by a signal; the status of a run is the one the adapter *)
(* prints, in whatever columns.                                            *)

AdapterWorlds ==
    [plugin : {"runs"}, code : 0..4 \cup {127, 255}, signal : {FALSE}]
    \cup [plugin : {"absent"}, code : {127}, signal : {FALSE}]
    \cup [plugin : {"runs"}, code : {9}, signal : {TRUE}]
AdapterOptions ==
    [kind : {"csv", "geneos", "check_mk"}, shell : BOOLEAN, result : {"none", "0", "2", "WARNING", "warning"},
     name : {"given", "perl only"}]

AdapterStates == <<"OK", "WARNING", "CRITICAL", "UNKNOWN", "DEPENDENT">>

\* The status setter: a number that is an exit code, or the name of a state.
AdapterStatus(returncode) == IF returncode \in 0..4 THEN AdapterStates[returncode + 1] ELSE "UNKNOWN"
AdapterResult(result) ==
    CASE result = "0" -> AdapterStatus(0) [] result = "2" -> AdapterStatus(2)
      [] result \in Range(AdapterStates) -> result [] OTHER -> "UNKNOWN"

\* Without a shell a command that is not there is an OSError; by a signal the
\* return code is negative, or 128 and more from a shell.
AdapterCmd(o, a) ==
    CASE a.plugin = "absent" -> "UNKNOWN"
      [] o.shell /\ a.code = 127 -> AdapterStatus(3)
      [] a.signal -> AdapterStatus(IF o.shell THEN 128 + a.code ELSE -a.code)
      [] OTHER -> AdapterStatus(a.code)

AdapterRun(o, a) == IF o.result # "none" THEN AdapterResult(o.result) ELSE AdapterCmd(o, a)

CheckMkName(o) == o.name # "perl only"

AdapterStep(o, seen) ==
    CASE o.kind = "check_mk" /\ ~CheckMkName(o) -> Exit("UNKNOWN")
      [] seen = <<>> -> Ask("plugin")
      [] AdapterRun(o, seen[1]) = "DEPENDENT" -> Exit("UNKNOWN")
      [] OTHER -> Exit(AdapterRun(o, seen[1]))

\* What OK tells of: the plugin ran and ended well, if it is what was asked.
AdapterHolds(o, w) == IF o.result = "none" THEN w.plugin = "runs" /\ ~w.signal /\ w.code = 0 ELSE o.result = "0"
=============================================================================
