-------------------------------- MODULE Formats --------------------------------
(***************************************************************************)
(* Which loader reads which file: src/util/software_surface_factory.cpp    *)
(* with the loaders, src/util/archive_manager.cpp with the archivers, and  *)
(* the URLs of src/util/url.cpp.                                           *)
(*                                                                         *)
(* A file name is the sequence of its parts between the dots.  Capitals    *)
(* are left out.  What a file really is, is its kind.  Both tables have    *)
(* more extensions and mime types than are written here: those left out    *)
(* are treated the same.                                                   *)
(***************************************************************************)
EXTENDS Integers, Sequences, FiniteSets, SequencesExt

CONSTANT Endings(_)   \* the extensions a word, without a dot in it, ends in

(* A loader: what it registers for, the kinds it can decode, whether it    *)
(* reads files and memory, and the programs it needs.                      *)
Loader(name, exts, mimes, magic, kinds, mem, programs) ==
  [name |-> name, exts |-> exts, mimes |-> mimes, magic |-> magic, kinds |-> kinds,
   mem |-> mem, programs |-> programs]

(* What is_available() looks for. *)
XcfPrograms      == {"xcfinfo", "xcf2png"}
UFRawPrograms    == {"ufraw-batch"}
RsvgPrograms     == {"rsvg"}
VidThumbPrograms == {"vidthumb"}
KraPrograms      == {"koconverter"}

JpegLoader == Loader("jpeg", {"jpeg", "jpg"}, {"image/jpeg"}, {"jpeg"}, {"jpeg"}, TRUE, {})
PngLoader  == Loader("png", {"png"}, {"image/png"}, {"png"}, {"png"}, TRUE, {})
XcfLoader  == Loader("xcf", {"xcf", "xcf.gz", "xcf.bz2"}, {"application/x-gimp-image"}, {"xcf"},
                     {"xcf"}, TRUE, XcfPrograms)
UFRawLoader == Loader("ufraw", {"cr2", "nef", "raw"}, {"image/x-raw"}, {}, {"raw"}, FALSE,
                      UFRawPrograms)
RsvgLoader  == Loader("rsvg", {"svg", "svgz"}, {"image/svg+xml"}, {}, {"svg"}, FALSE, RsvgPrograms)
VidThumbLoader == Loader("vidthumb", {"avi", "mp4"}, {}, {}, {"video"}, FALSE, VidThumbPrograms)
KraLoader   == Loader("kra", {"kra"}, {"application/x-krita"}, {}, {"kra"}, FALSE, KraPrograms)
DdsLoader   == Loader("dds", {"dds", "tex"}, {}, {}, {"dds"}, FALSE, {})
MagickExtensions == {"gif", "tiff", "ppm"}
MagickLoader == Loader("imagemagick", MagickExtensions, {}, {}, {"gif", "jpeg", "png"}, TRUE, {})

NoLoader == Loader("none", {}, {}, {}, {}, FALSE, {})

(* The first to register for something has it, but only loaders whose      *)
(* programs are there register.                                            *)
AllLoaders == <<JpegLoader, PngLoader, XcfLoader, UFRawLoader, RsvgLoader, VidThumbLoader,
                KraLoader, DdsLoader, MagickLoader>>

Loaders(tools) == SelectSeq(AllLoaders, LAMBDA l : l.programs \subseteq tools)

First(loaders) == IF loaders = <<>> THEN NoLoader ELSE Head(loaders)

find_loader_by_extension(tools, ext) == First(SelectSeq(Loaders(tools), LAMBDA l : ext \in l.exts))
find_loader_by_mime_type(tools, mime) == First(SelectSeq(Loaders(tools), LAMBDA l : mime \in l.mimes))

(* The magic is read from the first 512 bytes: a smaller file has none.    *)
find_loader_by_magic(tools, file) ==
  First(SelectSeq(Loaders(tools), LAMBDA l : ~file.small /\ file.kind \in l.magic))

(* Filesystem::get_extension() *)
Extension(name) ==
  LET n == Len(name)
  IN  IF name[n] \in {"gz", "bz2"} /\ n > 1 THEN name[n - 1] \o "." \o name[n] ELSE name[n]

(* Filesystem::has_extension(): how the name ends, dot or no dot. *)
HasExtension(name, ext) ==
  LET n == Len(name)
  IN  \/ ext \in Endings(name[n])
      \/ n > 1 /\ \E e \in Endings(name[n - 1]) : ext = e \o "." \o name[n]

has_supported_extension(tools, name) ==
  find_loader_by_extension(tools, Extension(name)) # NoLoader

filename_is_jpeg(name) == Extension(name) \in {"jpg", "jpeg"}

-----------------------------------------------------------------------------
(* Archivers: str is what a URL calls them. *)

Archiver(name, exts, magic, plugin, str) ==
  [name |-> name, exts |-> exts, magic |-> magic, plugin |-> plugin, str |-> str]

(* The program a plugin calls, to list archives and to unpack them, and    *)
(* the kind of archive it can do this with.                                *)
Plugin(program, kind) == [program |-> program, kind |-> kind]

RarPlugin      == Plugin("rar", "rar")
ZipPlugin      == Plugin("unzip", "zip")
TarPlugin      == Plugin("tar", "tar")
SevenZipPlugin == Plugin("7zr", "7z")

RarArchiver == Archiver("rar", {"rar", "cbr"}, {"rar"}, RarPlugin, "rar")
ZipArchiver == Archiver("zip", {"zip", "cbz"}, {"zip"}, ZipPlugin, "zip")
TarArchiver == Archiver("tar", {"tar", "tgz", "tar.gz", "tar.bz2"}, {}, TarPlugin, "tar")
SevenZipArchiver == Archiver("7z", {"7z"}, {"7z"}, SevenZipPlugin, "7z")

NoPlugin   == Plugin("none", "none")
NoArchiver == Archiver("none", {}, {}, NoPlugin, "none")
Archivers  == {RarArchiver, ZipArchiver, TarArchiver, SevenZipArchiver}

Only(archivers) == IF archivers = {} THEN NoArchiver ELSE CHOOSE a \in archivers : TRUE

ArchiverByFilename(name) == Only({a \in Archivers : \E e \in a.exts : HasExtension(name, e)})
ArchiverByMagic(file)    == Only({a \in Archivers : ~file.small /\ file.kind \in a.magic})

is_archive(name) == ArchiverByFilename(name) # NoArchiver

-----------------------------------------------------------------------------
(* URLs: the file and, in an archive, the plugin and the member. *)

NoMember == 0

FromFilename(f)           == [protocol |-> "file", payload |-> f, plugin |-> "", member |-> NoMember]
FromString(protocol, f)   == [protocol |-> protocol, payload |-> f, plugin |-> "", member |-> NoMember]
MemberUrl(f, archiver, m) == [protocol |-> "file", payload |-> f, plugin |-> archiver.str, member |-> m]

has_stdio_name(url) == url.protocol = "file" /\ url.plugin = ""
is_remote(url)      == url.protocol # "file"

(* get_blob(): the plugin it asks for a member. *)
Unpacker(plugin) ==
  CASE plugin = "rar"  -> RarPlugin
    [] plugin = "zip"  -> ZipPlugin
    [] plugin = "7zip" -> SevenZipPlugin
    [] plugin = "tar"  -> TarPlugin
    [] OTHER           -> NoPlugin
===============================================================================
