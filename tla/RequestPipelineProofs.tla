---- MODULE RequestPipelineProofs ----
(***************************************************************************)
(* Theorems about RequestPipeline for any directories, configurations and  *)
(* number of edits: type correctness, that a folder is always listed in    *)
(* browse mode, and that the client of an unedited site gets what is       *)
(* documented.                                                             *)
(***************************************************************************)
EXTENDS RequestPipeline, FiniteSetTheorems, TLAPS

Home == [dir |-> Root, leaf |-> "/"]

\* InitialFile put the configured file in the place of the root.
Rewritten ==
    /\ url = Home /\ path = [dir |-> Root, leaf |-> config.initial]
    /\ config.initial # NoInitial /\ ~config.browse

\* A handler is only reached in the configuration it is for, and with a path it is for.
Placed ==
    /\ at = "initial" => path = url
    /\ at = "browse" => config.browse
    /\ at = "markdown" => config.markdown
    /\ at = "guard" => config.noListing /\ ~config.markdown /\ ~config.browse
    /\ at \in {"indexHtml", "indexHtm", "candidate"} =>
          HasSlash(path) /\ ~config.browse /\ (config.markdown \/ config.noListing)
    /\ at = "candidate" => config.markdown
    /\ at \notin {"initial", "browse", "done"} /\ config.browse => ~HasSlash(path)
    /\ at # "done" => path = url \/ Rewritten
    /\ at \notin {"initial", "done"} /\ path = Home => config.browse \/ config.initial = NoInitial

\* In browse mode the request for a folder stays with the folder, and is answered by the
\* browse handler.
Folder == config.browse /\ IsDirectory(asked) =>
    /\ IsDirectory(url) /\ url.dir = asked.dir
    /\ at # "done" => path = url
    /\ \/ at \in {"initial", "browse", "done"}
       \/ at \in {"markdown", "fileServer"} /\ ~HasSlash(path)
    /\ at = "done" => answer = [kind |-> "listing", of |-> InDir(asked, "/")]

\* The site is as it was, and has no index.htm.
Unedited == edits = 0 /\ \A p \in site : p.leaf # "index.htm"

Owed == Documented(asked)

\* What the file server makes of a directory with its slash.
ServedDirectory(p) ==
    LET index == InDir(p, "index.html")
    IN  IF index \in site THEN [kind |-> "file", of |-> index] ELSE [kind |-> "listing", of |-> p]

\* Wherever the request is, the URL has the answer the client is owed, and what the handlers
\* before have left for this one leads to it.
Due == Unedited =>
    /\ at # "done" => Owed = Documented(url)
    /\ at \notin {"initial", "browse", "done"} /\ config.browse /\ path \in site =>
          path.leaf \in MarkdownNames
    /\ at = "fileServer" /\ path \in site /\ path.leaf \in MarkdownNames => ~config.markdown
    /\ at \in {"indexHtm", "candidate"} => InDir(path, "index.html") \notin site
    /\ at = "fileServer" /\ HasSlash(path) => Owed = ServedDirectory(path)
    /\ at = "render" => candidate \in site /\ Owed = [kind |-> "page", of |-> candidate]
    /\ at = "done" => answer = Owed

IInv == TypeOK /\ Placed /\ Folder /\ Due

-----------------------------------------------------------------------------
(* Paths, configurations and what is documented of them *)

\* The configuration code drops the listing switch in browse mode.
LEMMA ConfigFacts ==
  ASSUME TypeOK
  PROVE  /\ config.markdown \in BOOLEAN /\ config.browse \in BOOLEAN /\ config.noListing \in BOOLEAN
         /\ config.browse => ~config.noListing
         /\ config.initial \in FileNames \cup {NoInitial}
  BY ConfigAssumption DEF TypeOK

\* No file is called like a directory.
LEMMA NameFacts ==
  /\ "/" \notin FileNames /\ "" \notin FileNames /\ NoInitial \notin FileNames
  /\ \A n \in FileNames :
        n \in {"index.html", "index.htm", "README.md", "guide.md", "cat.html", "data.bin"}
  BY NamesAssumption DEF IndexCandidates, MarkdownNames, NoInitial

\* Paths with a leaf, and directories without their slash.
SlashedPaths == {[dir |-> d, leaf |-> l] : d \in Dirs, l \in FileNames \cup {"/"}}
BarePaths    == {[dir |-> d, leaf |-> ""] : d \in Dirs \ {Root}}

\* Any directory and leaf make a path.
LEMMA SlashedMember ==
  ASSUME NEW d \in Dirs, NEW l \in FileNames \cup {"/"}
  PROVE  [dir |-> d, leaf |-> l] \in SlashedPaths
  BY DEF SlashedPaths

\* What a path with a leaf is made of.
LEMMA SlashedFacts ==
  ASSUME NEW p \in SlashedPaths
  PROVE  \E d \in Dirs, l \in FileNames \cup {"/"} : p = [dir |-> d, leaf |-> l]
  BY DEF SlashedPaths

\* What a path without one is made of.
LEMMA BareFacts ==
  ASSUME NEW p \in BarePaths
  PROVE  \E d \in Dirs \ {Root} : p = [dir |-> d, leaf |-> ""]
  BY DEF BarePaths

\* There are no other paths.
LEMMA PathKinds == Paths = SlashedPaths \cup BarePaths
  BY DEF Paths, SlashedPaths, BarePaths

\* A path is a directory of the site and a leaf.
LEMMA PathFacts ==
  ASSUME NEW p \in Paths
  PROVE  /\ p = [dir |-> p.dir, leaf |-> p.leaf]
         /\ p.dir \in Dirs /\ p.leaf \in FileNames \cup {"/", ""}
         /\ InDir(p, "/") \in Paths
         /\ HasSlash(p) <=> p = InDir(p, "/")
         /\ \A n \in FileNames : InDir(p, n) \in FilePaths
<1>1. PICK d \in Dirs, l \in FileNames \cup {"/", ""} : p = [dir |-> d, leaf |-> l]
  <2>1. CASE p \in SlashedPaths
    <3>1. PICK d \in Dirs, l \in FileNames \cup {"/"} : p = [dir |-> d, leaf |-> l]
      BY <2>1, SlashedFacts
    <3> QED
      BY <3>1
  <2>2. CASE p \in BarePaths
    <3>1. PICK d \in Dirs : p = [dir |-> d, leaf |-> ""]
      BY <2>2, BareFacts
    <3> QED
      BY <3>1
  <2> QED
    BY <2>1, <2>2, PathKinds
<1>2. ASSUME NEW n \in FileNames \cup {"/"} PROVE InDir(p, n) \in Paths
  <2>1. p.dir \in Dirs
    BY <1>1
  <2>2. InDir(p, n) \in SlashedPaths
    BY <2>1, SlashedMember DEF InDir
  <2> QED
    BY <2>2, PathKinds
<1>3. \A n \in FileNames : InDir(p, n) \in FilePaths
  BY <1>2 DEF FilePaths, InDir
<1> QED
  BY <1>1, <1>2, <1>3 DEF InDir, HasSlash

\* So is a file of the site.
LEMMA SiteFacts ==
  ASSUME TypeOK
  PROVE  \A p \in site : p \in Paths /\ p.leaf \in FileNames /\ ~IsDirectory(p)
  BY NameFacts DEF TypeOK, FilePaths, IsDirectory

\* The root is a path, and so is the configured file.
LEMMA HomeFacts ==
  ASSUME TypeOK
  PROVE  /\ Home \in Paths /\ HasSlash(Home) /\ InDir(Home, "/") = Home
         /\ config.initial # NoInitial => [dir |-> Root, leaf |-> config.initial] \in Paths
<1>1. ASSUME NEW n \in FileNames \cup {"/"} PROVE [dir |-> Root, leaf |-> n] \in Paths
  BY SlashedMember, PathKinds, RootAssumption
<1> QED
  BY <1>1, ConfigFacts DEF Home, HasSlash, InDir

\* What is documented depends on the site and the configuration only.
LEMMA SameDocumented ==
  ASSUME UNCHANGED <<config, site>>, NEW u
  PROVE  Documented(u)' = Documented(u)
  BY DEF Documented, Canonical, DocumentedFile, DocumentedDirectory, MarkdownIn

\* What is documented of a directory is documented of its URL with a slash.
LEMMA SlashAnswer ==
  ASSUME TypeOK, NEW u \in Paths, u.leaf \in {"", "index.html"}, ~(config.browse /\ u \in site)
  PROVE  Documented(u) = Documented(InDir(u, "/"))
<1>1. Canonical(u) = InDir(u, "/")
  BY DEF Canonical
<1>2. Canonical(InDir(u, "/")) = InDir(u, "/")
  BY DEF Canonical, InDir
<1> QED
  BY <1>1, <1>2 DEF Documented

\* The path q the handlers see is the URL, or the configured file in the place of the root.
Reaches(q) ==
    /\ \/ q = url
       \/ /\ url = Home /\ q = [dir |-> Root, leaf |-> config.initial]
          /\ config.initial # NoInitial /\ ~config.browse
    /\ q = Home => config.browse \/ config.initial = NoInitial

\* What is documented of the URL, in terms of the path the handlers see.
LEMMA UrlAnswer ==
  ASSUME TypeOK, NEW q \in Paths, Reaches(q)
  PROVE  /\ HasSlash(q) => q = url /\ Documented(url) = DocumentedDirectory(q)
         /\ ~HasSlash(q) /\ q.leaf \notin {"", "index.html"} =>
               Documented(url) = DocumentedFile(q)
         /\ q.leaf = "index.html" /\ config.browse /\ q \in site =>
               Documented(url) = DocumentedFile(q)
         /\ q.leaf \in {"", "index.html"} /\ ~(config.browse /\ q \in site) =>
               Documented(url) = Documented(InDir(url, "/"))
<1>1. url \in Paths
  BY DEF TypeOK
<1>2. CASE q # url
  <2>1. /\ q = [dir |-> Root, leaf |-> config.initial] /\ q.leaf \in FileNames
        /\ url = Home /\ config.initial # NoInitial /\ ~config.browse
    BY <1>2, ConfigFacts DEF Reaches
  <2>2. ~HasSlash(q) /\ q.leaf # ""
    BY <2>1, NameFacts DEF HasSlash
  <2>3. Canonical(url) = Home /\ InDir(url, "/") = url
    BY <2>1 DEF Canonical, Home, InDir
  <2>4. Documented(url) = DocumentedFile(q)
    BY <2>1, <2>3 DEF Documented, Home
  <2> QED
    BY <2>1, <2>2, <2>3, <2>4
<1>3. CASE q = url
  <2>1. CASE HasSlash(q)
    <3>1. Canonical(url) = url /\ IsDirectory(url)
      BY <1>3, <2>1 DEF Canonical, HasSlash, IsDirectory
    <3>2. ~(url = Home /\ config.initial # NoInitial /\ ~config.browse)
      BY <1>3 DEF Reaches
    <3> QED
      BY <1>3, <2>1, <3>1, <3>2 DEF Documented, Home, HasSlash
  <2>2. ASSUME ~HasSlash(q),
               \/ q.leaf \notin {"", "index.html"}
               \/ q.leaf = "index.html" /\ config.browse /\ q \in site
        PROVE  Documented(url) = DocumentedFile(q)
    <3>1. url.leaf # "/" /\ url.leaf # ""
      BY <1>3, <2>2 DEF HasSlash
    <3>2. ~IsDirectory(url)
      BY <3>1 DEF IsDirectory
    <3>3. url # Home
      <4>1. Home.leaf = "/"
        BY DEF Home
      <4> QED
        BY <3>1, <4>1
    <3>4. Canonical(url) = url
      BY <1>3, <2>2, <3>1 DEF Canonical
    <3> QED
      BY <1>3, <3>2, <3>3, <3>4 DEF Documented, Home
  <2>3. q.leaf \in {"", "index.html"} /\ ~(config.browse /\ q \in site) =>
            Documented(url) = Documented(InDir(url, "/"))
    BY <1>1, <1>3, SlashAnswer
  <2> QED
    BY <1>3, <2>1, <2>2, <2>3 DEF HasSlash
<1> QED
  BY <1>2, <1>3

\* The page that is chosen for a directory is one of its Markdown files: a set with one
\* element is not empty.
LEMMA PageChosen ==
  ASSUME TypeOK,
         InDir(path, "README.md") \in MarkdownIn(path.dir) \/ Cardinality(MarkdownIn(path.dir)) = 1
  PROVE  (IF InDir(path, "README.md") \in MarkdownIn(path.dir) THEN InDir(path, "README.md")
          ELSE CHOOSE p \in MarkdownIn(path.dir) : TRUE) \in site
<1>1. CASE InDir(path, "README.md") \in MarkdownIn(path.dir)
  BY <1>1 DEF MarkdownIn
<1>2. CASE InDir(path, "README.md") \notin MarkdownIn(path.dir)
  <2>1. MarkdownIn(path.dir) # {}
    BY <1>2, FS_EmptySet
  <2>2. (CHOOSE p \in MarkdownIn(path.dir) : TRUE) \in MarkdownIn(path.dir)
    BY <2>1
  <2> QED
    BY <1>2, <2>2 DEF MarkdownIn
<1> QED
  BY <1>1, <1>2

-----------------------------------------------------------------------------
(* Types *)

\* What the client may be answered has a kind and is of a path.
LEMMA AnswerType ==
  ASSUME TypeOK, NEW kind \in Kinds, NEW of \in Paths, Answer(kind, of)
  PROVE  TypeOK'
  BY DEF Answer, TypeOK, Handlers

\* Every handler, and every edit, keeps the types.
LEMMA TypeNext == TypeOK /\ [Next]_vars => TypeOK'
<1> SUFFICES ASSUME TypeOK, [Next]_vars PROVE TypeOK'
  OBVIOUS
<1>1. path \in Paths /\ url \in Paths /\ candidate \in Paths /\ site \subseteq Paths
  BY DEF TypeOK, FilePaths
<1>2. ASSUME NEW handler \in Handlers, Pass(handler) PROVE TypeOK'
  BY <1>2 DEF Pass, TypeOK
<1>3. CASE Redirect
  BY <1>1, <1>3, PathFacts DEF Redirect, TypeOK, Handlers
<1>4. InnerHandler \in Handlers
  BY DEF InnerHandler, Handlers
<1>5. CASE InitialFile
  BY <1>4, <1>5, HomeFacts DEF InitialFile, TypeOK, Handlers
<1>6. CASE Browse
  BY <1>1, <1>2, <1>4, <1>6, AnswerType DEF Browse, Kinds
<1>7. CASE Markdown
  <2>1. CASE /\ candidate' = path /\ at' = "render"
             /\ UNCHANGED <<config, site, asked, url, path, answer, edits>>
    BY <1>1, <2>1 DEF TypeOK, Handlers
  <2> QED
    BY <1>2, <1>7, <2>1 DEF Markdown, Handlers
<1>8. CASE Guard \/ IndexHtml
  BY <1>2, <1>8 DEF Guard, IndexHtml, Handlers
<1>9. CASE IndexHtm
  BY <1>1, <1>2, <1>9, AnswerType DEF IndexHtm, Handlers, Kinds
<1>10. CASE SelectCandidate
  <2>1. CASE config.noListing /\ Answer("forbidden", path)
    BY <1>1, <2>1, AnswerType DEF Kinds
  <2>2. CASE Pass("fileServer")
    BY <1>2, <2>2 DEF Handlers
  <2>3. CASE /\ \/ InDir(path, "README.md") \in MarkdownIn(path.dir)
                \/ Cardinality(MarkdownIn(path.dir)) = 1
             /\ candidate' = IF InDir(path, "README.md") \in MarkdownIn(path.dir)
                             THEN InDir(path, "README.md")
                             ELSE CHOOSE p \in MarkdownIn(path.dir) : TRUE
             /\ at' = "render" /\ UNCHANGED <<config, site, asked, url, path, answer, edits>>
    <3>1. candidate' \in Paths
      BY <1>1, <2>3, PageChosen
    <3> QED
      BY <2>3, <3>1 DEF TypeOK, Handlers
  <2> QED
    BY <1>10, <2>1, <2>2, <2>3 DEF SelectCandidate
<1>11. CASE Render
  BY <1>1, <1>2, <1>11, AnswerType DEF Render, Handlers, Kinds
<1>12. CASE FileServer
  <2>1. InDir(path, "index.html") \in site => InDir(path, "index.html") \in Paths
    BY <1>1
  <2> QED
    BY <1>1, <1>3, <1>12, <2>1, AnswerType DEF FileServer, Kinds
<1>13. CASE Edit
  BY <1>13, EditsAssumption DEF Edit, TypeOK
<1>14. CASE UNCHANGED vars
  BY <1>14 DEF vars, TypeOK
<1> QED
  BY <1>5, <1>6, <1>7, <1>8, <1>9, <1>10, <1>11, <1>12, <1>13, <1>14 DEF Next, Handle

-----------------------------------------------------------------------------
(* Every handler leaves the request where it belongs *)

\* In a handler behind the first one the path is one UrlAnswer speaks of.
LEMMA PathReaches ==
  ASSUME TypeOK, Placed, at \notin {"initial", "done"}
  PROVE  path \in Paths /\ Reaches(path)
  BY DEF TypeOK, Placed, Rewritten, Reaches

\* A handler changes neither what the client is owed nor whether the site was edited.
LEMMA SameOwed ==
  ASSUME UNCHANGED <<config, site, asked, edits>>
  PROVE  Owed' = Owed /\ Unedited' = Unedited
  BY SameDocumented DEF Owed, Unedited

\* What is documented of a directory, when no page is chosen for it.
LEMMA DirectoryAnswer ==
  ASSUME NEW p \in Paths, HasSlash(p)
  PROVE  LET index == InDir(p, "index.html")
         IN  /\ config.browse => DocumentedDirectory(p) = [kind |-> "listing", of |-> p]
             /\ ~config.browse /\ index \in site =>
                   DocumentedDirectory(p) = [kind |-> "file", of |-> index]
             /\ ~config.browse /\ index \notin site /\ ~config.markdown =>
                   DocumentedDirectory(p) =
                       [kind |-> IF config.noListing THEN "forbidden" ELSE "listing", of |-> p]
<1>1. InDir(p, "/") = p
  BY PathFacts
<1> QED
  BY <1>1 DEF DocumentedDirectory

\* The configured file is put in the place of the root, and the first handler of the configuration
\* gets the request.
LEMMA InitialFileKeeps == IInv /\ InitialFile => Placed' /\ Folder' /\ Due'
<1> SUFFICES ASSUME IInv, InitialFile PROVE Placed' /\ Folder' /\ Due'
  OBVIOUS
<1>1. /\ at = "initial" /\ path = url /\ path \in Paths
      /\ UNCHANGED <<config, site, asked, url, candidate, answer, edits>>
      /\ at' = IF config.browse THEN "browse" ELSE InnerHandler
  BY DEF IInv, Placed, InitialFile, TypeOK
<1>2. /\ config.browse => path' = url
      /\ path' \in Paths /\ Reaches(path')
  BY <1>1, ConfigFacts, HomeFacts, NameFacts DEF IInv, InitialFile, Reaches, Home
<1>3. /\ at' \in {"browse", "markdown", "guard", "fileServer"}
      /\ at' = "browse" <=> config.browse
      /\ at' = "markdown" => config.markdown
      /\ at' = "guard" => config.noListing /\ ~config.markdown
      /\ at' = "fileServer" => ~config.markdown /\ ~config.noListing
  BY <1>1, ConfigFacts DEF IInv, InnerHandler
<1>4. Placed'
  BY <1>1, <1>2, <1>3 DEF Placed, Rewritten, Reaches
<1>5. Folder'
  BY <1>1, <1>2, <1>3 DEF IInv, Folder, IsDirectory
<1>6. ASSUME Unedited PROVE Due'
  <2>1. Owed = Documented(url)
    BY <1>1, <1>6 DEF IInv, Due
  <2>2. at' = "fileServer" /\ HasSlash(path') => Owed = ServedDirectory(path')
    <3> SUFFICES ASSUME at' = "fileServer", HasSlash(path')
                 PROVE  Owed = ServedDirectory(path')
      OBVIOUS
    <3>1. Owed = DocumentedDirectory(path')
      BY <1>2, <2>1, UrlAnswer DEF IInv
    <3> QED
      BY <1>2, <1>3, <3>1, DirectoryAnswer DEF ServedDirectory
  <2> QED
    BY <1>1, <1>3, <2>1, <2>2, SameOwed, SameDocumented DEF Due, HasSlash, ServedDirectory, InDir
<1> QED
  BY <1>1, <1>4, <1>5, <1>6, SameOwed DEF Due

\* Browse mode answers folders and plain files, and leaves the rest to the handlers behind it.
LEMMA BrowseKeeps == IInv /\ Browse => Placed' /\ Folder' /\ Due'
<1> SUFFICES ASSUME IInv, Browse PROVE Placed' /\ Folder' /\ Due'
  OBVIOUS
<1>1. /\ at = "browse" /\ config.browse /\ ~config.noListing /\ path = url /\ path \in Paths
      /\ Reaches(path)
      /\ UNCHANGED <<config, site, asked, url, path, edits>>
  BY ConfigFacts, PathReaches DEF IInv, Placed, Browse, Rewritten, Answer, Pass
<1>2. CASE HasSlash(path) /\ Answer("listing", path)
  <2>1. Placed'
    BY <1>1, <1>2 DEF Placed, Answer, Rewritten
  <2>2. Folder'
    <3>1. IsDirectory(asked) => path = InDir(asked, "/")
      BY <1>1, <1>2, PathFacts DEF IInv, Folder, InDir
    <3> QED
      BY <1>1, <1>2, <3>1 DEF IInv, Folder, Answer, IsDirectory, InDir
  <2>3. Unedited => Owed = [kind |-> "listing", of |-> path]
    BY <1>1, <1>2, UrlAnswer, DirectoryAnswer DEF IInv, Due
  <2>4. Due'
    BY <1>1, <1>2, <2>3, SameOwed DEF Due, Answer
  <2> QED
    BY <2>1, <2>2, <2>4
<1>3. CASE path \in site /\ path.leaf \notin MarkdownNames /\ Answer("file", path)
  <2>1. ~IsDirectory(path) /\ ~HasSlash(path) /\ path.leaf # ""
    BY <1>3, SiteFacts DEF IInv, IsDirectory, HasSlash
  <2>2. Placed'
    BY <1>1, <1>3 DEF Placed, Answer, Rewritten
  <2>3. Folder'
    BY <1>1, <1>3, <2>1 DEF IInv, Folder, Answer, IsDirectory
  <2>4. Unedited => Owed = [kind |-> "file", of |-> path]
    BY <1>1, <1>3, <2>1, UrlAnswer DEF IInv, Due, DocumentedFile
  <2>5. Due'
    BY <1>1, <1>3, <2>4, SameOwed DEF Due, Answer
  <2> QED
    BY <2>2, <2>3, <2>5
<1>4. CASE /\ ~HasSlash(path)
           /\ path \in site => path.leaf \in MarkdownNames
           /\ Pass(InnerHandler)
  <2>1. at' \in {"markdown", "fileServer"} /\ (at' = "markdown" <=> config.markdown)
    BY <1>1, <1>4, ConfigFacts DEF IInv, Pass, InnerHandler
  <2>2. Placed'
    BY <1>1, <1>4, <2>1 DEF Placed, Pass, HasSlash, Home, Rewritten
  <2>3. Folder'
    BY <1>1, <1>4, <2>1 DEF IInv, Folder, Pass, IsDirectory, HasSlash
  <2>4. Unedited => Owed = Documented(url)
    BY <1>1 DEF IInv, Due
  <2>5. Due'
    BY <1>1, <1>4, <2>1, <2>4, SameOwed, SameDocumented DEF Due, Pass, HasSlash
  <2> QED
    BY <2>2, <2>3, <2>5
<1> QED
  BY <1>2, <1>3, <1>4 DEF Browse

\* A Markdown file is rendered, a directory is looked into outside browse mode, and the rest goes
\* to the file server.
LEMMA MarkdownKeeps == IInv /\ Markdown => Placed' /\ Folder' /\ Due'
<1> SUFFICES ASSUME IInv, Markdown PROVE Placed' /\ Folder' /\ Due'
  OBVIOUS
<1>1. /\ at = "markdown" /\ config.markdown /\ path \in Paths /\ Reaches(path)
      /\ config.browse => ~HasSlash(path)
      /\ UNCHANGED <<config, site, asked, url, path, answer, edits>>
      /\ Unedited => Owed = Documented(url)
  BY PathReaches DEF IInv, Placed, Due, Markdown, Pass
<1>2. CASE path \in site /\ path.leaf \in MarkdownNames /\ candidate' = path /\ at' = "render"
  <2>1. ~IsDirectory(path) /\ ~HasSlash(path) /\ path.leaf \notin {"", "index.html"}
    BY <1>2, SiteFacts DEF IInv, IsDirectory, HasSlash, MarkdownNames
  <2>2. Placed'
    BY <1>1, <1>2, <2>1 DEF IInv, Placed, Rewritten, HasSlash
  <2>3. Folder'
    BY <1>1, <1>2, <2>1 DEF IInv, Folder, IsDirectory
  <2>4. Unedited => Owed = [kind |-> "page", of |-> path]
    BY <1>1, <1>2, <2>1, UrlAnswer DEF IInv, DocumentedFile
  <2>5. Due'
    BY <1>1, <1>2, <2>4, SameOwed, SameDocumented DEF Due
  <2> QED
    BY <2>2, <2>3, <2>5
<1>3. CASE HasSlash(path) /\ ~config.browse /\ Pass("indexHtml")
  <2>1. Placed'
    BY <1>1, <1>3 DEF IInv, Placed, Rewritten, Pass, HasSlash
  <2>2. Folder'
    BY <1>1, <1>3 DEF Folder
  <2>3. Due'
    BY <1>1, <1>3, SameOwed, SameDocumented DEF Due, Pass
  <2> QED
    BY <2>1, <2>2, <2>3
<1>4. CASE /\ ~(path \in site /\ path.leaf \in MarkdownNames)
           /\ ~(HasSlash(path) /\ ~config.browse)
           /\ Pass("fileServer")
  <2>1. Placed'
    BY <1>1, <1>4 DEF IInv, Placed, Rewritten, Pass, HasSlash
  <2>2. Folder'
    BY <1>1, <1>4 DEF IInv, Folder, Pass, HasSlash, IsDirectory
  <2>3. Due'
    BY <1>1, <1>4, SameOwed, SameDocumented DEF IInv, Due, Pass, HasSlash
  <2> QED
    BY <2>1, <2>2, <2>3
<1> QED
  BY <1>2, <1>3, <1>4 DEF Markdown

\* The handlers for a directory outside browse mode change nothing but the place of the request.
LEMMA DirectoryHandler ==
  ASSUME IInv, at \in {"guard", "indexHtml", "indexHtm", "candidate"}
  PROVE  /\ ~config.browse /\ path \in Paths /\ Reaches(path)
         /\ path = url \/ Rewritten
         /\ at # "guard" => HasSlash(path) /\ (config.markdown \/ config.noListing)
         /\ at = "guard" => config.noListing /\ ~config.markdown
         /\ at = "candidate" => config.markdown
         /\ HasSlash(path) => path # Home \/ config.initial = NoInitial
         /\ Unedited => Owed = Documented(url)
         /\ Unedited /\ HasSlash(path) => Owed = DocumentedDirectory(path)
         /\ Unedited /\ at \in {"indexHtm", "candidate"} => InDir(path, "index.html") \notin site
<1>1. path \in Paths /\ Reaches(path)
  BY PathReaches DEF IInv
<1>2. Unedited => Owed = Documented(url)
  BY DEF IInv, Due
<1>3. Unedited /\ HasSlash(path) => Owed = DocumentedDirectory(path)
  BY <1>1, <1>2, UrlAnswer DEF IInv
<1>4. Unedited /\ at \in {"indexHtm", "candidate"} => InDir(path, "index.html") \notin site
  BY DEF IInv, Due
<1>5. /\ ~config.browse /\ (path = url \/ Rewritten)
      /\ at # "guard" => HasSlash(path) /\ (config.markdown \/ config.noListing)
      /\ at = "guard" => config.noListing /\ ~config.markdown
      /\ at = "candidate" => config.markdown
      /\ HasSlash(path) => path # Home \/ config.initial = NoInitial
  BY DEF IInv, Placed
<1> QED
  BY <1>1, <1>2, <1>3, <1>4, <1>5

\* With listings disabled a directory is looked into before the file server sees it.
LEMMA GuardKeeps == IInv /\ Guard => Placed' /\ Folder' /\ Due'
<1> SUFFICES ASSUME IInv, Guard PROVE Placed' /\ Folder' /\ Due'
  OBVIOUS
<1>1. /\ at = "guard" /\ at' = IF HasSlash(path) THEN "indexHtml" ELSE "fileServer"
      /\ UNCHANGED <<config, site, asked, url, path, answer, edits>>
  BY DEF Guard, Pass
<1>2. /\ ~config.browse /\ (path = url \/ Rewritten) /\ config.noListing /\ ~config.markdown
      /\ HasSlash(path) => path # Home \/ config.initial = NoInitial
      /\ Unedited => Owed = Documented(url)
  BY <1>1, DirectoryHandler
<1>3. Placed'
  BY <1>1, <1>2 DEF IInv, Placed, Rewritten, HasSlash
<1>4. Folder'
  BY <1>1, <1>2 DEF Folder
<1>5. Due'
  BY <1>1, <1>2, SameOwed, SameDocumented DEF Due, HasSlash
<1> QED
  BY <1>3, <1>4, <1>5

\* A directory with an index.html goes to the file server, which serves that.
LEMMA IndexHtmlKeeps == IInv /\ IndexHtml => Placed' /\ Folder' /\ Due'
<1> SUFFICES ASSUME IInv, IndexHtml PROVE Placed' /\ Folder' /\ Due'
  OBVIOUS
<1>1. /\ at = "indexHtml"
      /\ at' = IF InDir(path, "index.html") \in site THEN "fileServer" ELSE "indexHtm"
      /\ UNCHANGED <<config, site, asked, url, path, answer, edits>>
  BY DEF IndexHtml, Pass
<1>2. /\ ~config.browse /\ path \in Paths /\ HasSlash(path) /\ (path = url \/ Rewritten)
      /\ config.markdown \/ config.noListing
      /\ path # Home \/ config.initial = NoInitial
      /\ Unedited => Owed = Documented(url) /\ Owed = DocumentedDirectory(path)
  BY <1>1, DirectoryHandler
<1>3. Placed'
  BY <1>1, <1>2 DEF Placed, Rewritten, HasSlash
<1>4. Folder'
  BY <1>1, <1>2 DEF Folder
<1>5. Unedited /\ at' = "fileServer" => Owed = ServedDirectory(path)
  BY <1>1, <1>2, DirectoryAnswer DEF ServedDirectory
<1>6. path.leaf \notin MarkdownNames
  BY <1>2 DEF HasSlash, MarkdownNames
<1>7. at' = "indexHtm" => InDir(path, "index.html") \notin site
  BY <1>1
<1>8. Due'
  BY <1>1, <1>2, <1>5, <1>6, <1>7, SameOwed, SameDocumented DEF Due, ServedDirectory, InDir
<1> QED
  BY <1>3, <1>4, <1>8

\* A directory without an index is forbidden, or searched for a page.
LEMMA IndexHtmKeeps == IInv /\ IndexHtm => Placed' /\ Folder' /\ Due'
<1> SUFFICES ASSUME IInv, IndexHtm PROVE Placed' /\ Folder' /\ Due'
  OBVIOUS
<1>1. at = "indexHtm" /\ UNCHANGED <<config, site, asked, url, path, edits>>
  BY DEF IndexHtm, Pass, Answer
<1>2. /\ ~config.browse /\ path \in Paths /\ HasSlash(path) /\ (path = url \/ Rewritten)
      /\ config.markdown \/ config.noListing
      /\ path # Home \/ config.initial = NoInitial
      /\ Unedited => Owed = Documented(url) /\ Owed = DocumentedDirectory(path)
      /\ Unedited => InDir(path, "index.html") \notin site
  BY <1>1, DirectoryHandler
<1>3. Folder'
  BY <1>1, <1>2 DEF Folder
<1>4. CASE InDir(path, "index.htm") \in site /\ Pass("fileServer")
  <2>1. ~Unedited
    BY <1>4 DEF Unedited, InDir
  <2>2. Placed'
    BY <1>1, <1>2, <1>4 DEF Placed, Pass, Rewritten, HasSlash
  <2> QED
    BY <1>1, <1>3, <2>1, <2>2, SameOwed DEF Due
<1>5. CASE config.markdown /\ Pass("candidate")
  <2>1. Placed'
    BY <1>1, <1>2, <1>5 DEF Placed, Pass, Rewritten, HasSlash
  <2>2. Due'
    BY <1>1, <1>2, <1>5, SameOwed, SameDocumented DEF Due, Pass, InDir
  <2> QED
    BY <1>3, <2>1, <2>2
<1>6. CASE ~config.markdown /\ Answer("forbidden", path)
  <2>1. Placed'
    BY <1>1, <1>2, <1>6 DEF Placed, Answer, Rewritten
  <2>2. Unedited => Owed = [kind |-> "forbidden", of |-> path]
    BY <1>2, <1>6, DirectoryAnswer
  <2>3. Due'
    BY <1>1, <1>6, <2>2, SameOwed DEF Due, Answer
  <2> QED
    BY <1>3, <2>1, <2>3
<1> QED
  BY <1>4, <1>5, <1>6 DEF IndexHtm

\* The page for a directory without an index.html is the one SelectCandidate chooses.
LEMMA PageAnswer ==
  ASSUME NEW p \in Paths, ~config.browse, config.markdown, InDir(p, "index.html") \notin site
  PROVE  LET readme == InDir(p, "README.md")
             found  == MarkdownIn(p.dir)
         IN  /\ readme \in found \/ Cardinality(found) = 1 =>
                   DocumentedDirectory(p) =
                       [kind |-> "page", of |-> IF readme \in found THEN readme
                                                ELSE CHOOSE p1 \in found : TRUE]
             /\ ~(readme \in found \/ Cardinality(found) = 1) =>
                   DocumentedDirectory(p) =
                       [kind |-> IF config.noListing THEN "forbidden" ELSE "listing",
                        of |-> InDir(p, "/")]
<1>1. InDir(p, "README.md") \in MarkdownIn(p.dir) <=> InDir(p, "README.md") \in site
  BY DEF MarkdownIn, MarkdownNames, InDir
<1> DEFINE readme == InDir(p, "README.md")
           found  == MarkdownIn(p.dir)
<1>2. CASE readme \in found
  BY <1>1, <1>2 DEF DocumentedDirectory
<1>3. CASE readme \notin found /\ Cardinality(found) = 1
  BY <1>1, <1>3 DEF DocumentedDirectory
<1>4. CASE ~(readme \in found \/ Cardinality(found) = 1)
  BY <1>1, <1>4 DEF DocumentedDirectory
<1> QED
  BY <1>2, <1>3, <1>4

\* The page chosen for a directory is the documented one.
LEMMA SelectCandidateKeeps == IInv /\ SelectCandidate => Placed' /\ Folder' /\ Due'
<1> SUFFICES ASSUME IInv, SelectCandidate PROVE Placed' /\ Folder' /\ Due'
  OBVIOUS
<1>1. at = "candidate" /\ UNCHANGED <<config, site, asked, url, path, edits>>
  BY DEF SelectCandidate, Pass, Answer
<1>2. /\ ~config.browse /\ path \in Paths /\ HasSlash(path) /\ (path = url \/ Rewritten)
      /\ config.markdown
      /\ path # Home \/ config.initial = NoInitial
      /\ Unedited => Owed = Documented(url) /\ Owed = DocumentedDirectory(path)
      /\ Unedited => InDir(path, "index.html") \notin site
  BY <1>1, DirectoryHandler
<1>3. Folder'
  BY <1>1, <1>2 DEF Folder
<1>4. path = InDir(path, "/") /\ path.leaf \notin MarkdownNames
  BY <1>2, PathFacts DEF HasSlash, MarkdownNames
<1> DEFINE readme == InDir(path, "README.md")
           found  == MarkdownIn(path.dir)
           chosen == IF readme \in found THEN readme ELSE CHOOSE p \in found : TRUE
<1>5. CASE /\ readme \in found \/ Cardinality(found) = 1
           /\ candidate' = chosen /\ at' = "render"
  <2>1. Placed'
    BY <1>1, <1>2, <1>5 DEF Placed, Rewritten, HasSlash
  <2>2. chosen \in site
    BY <1>5, PageChosen DEF IInv
  <2>3. Unedited => Owed = [kind |-> "page", of |-> chosen]
    BY <1>2, <1>5, PageAnswer
  <2>4. Due'
    BY <1>1, <1>2, <1>5, <2>2, <2>3, SameOwed, SameDocumented DEF Due
  <2> QED
    BY <1>3, <2>1, <2>4
<1>6. CASE /\ ~(readme \in found \/ Cardinality(found) = 1)
           /\ config.noListing /\ Answer("forbidden", path)
  <2>1. Placed'
    BY <1>1, <1>2, <1>6 DEF Placed, Answer, Rewritten
  <2>2. Unedited => Owed = [kind |-> "forbidden", of |-> path]
    BY <1>2, <1>4, <1>6, PageAnswer
  <2>3. Due'
    BY <1>1, <1>6, <2>2, SameOwed DEF Due, Answer
  <2> QED
    BY <1>3, <2>1, <2>3
<1>7. CASE /\ ~(readme \in found \/ Cardinality(found) = 1)
           /\ ~config.noListing /\ Pass("fileServer")
  <2>1. Placed'
    BY <1>1, <1>2, <1>7 DEF Placed, Pass, Rewritten, HasSlash
  <2>2. Unedited => Owed = [kind |-> "listing", of |-> path]
    BY <1>2, <1>4, <1>7, PageAnswer
  <2>3. Unedited => Owed = ServedDirectory(path)
    BY <1>2, <2>2 DEF ServedDirectory
  <2>4. Due'
    BY <1>1, <1>2, <1>4, <1>7, <2>3, SameOwed, SameDocumented DEF Due, Pass, ServedDirectory, InDir
  <2> QED
    BY <1>3, <2>1, <2>4
<1> QED
  BY <1>5, <1>6, <1>7 DEF SelectCandidate

\* The chosen page is what is owed; only an edit can have removed it.
LEMMA RenderKeeps == IInv /\ Render => Placed' /\ Folder' /\ Due'
<1> SUFFICES ASSUME IInv, Render PROVE Placed' /\ Folder' /\ Due'
  OBVIOUS
<1>1. at = "render" /\ UNCHANGED <<config, site, asked, url, path, edits, candidate>>
  BY DEF Render, Pass, Answer
<1>2. Unedited => candidate \in site /\ Owed = [kind |-> "page", of |-> candidate]
  BY <1>1 DEF IInv, Due
<1>3. Folder'
  BY <1>1 DEF IInv, Folder, IsDirectory
<1>4. CASE candidate \in site /\ Answer("page", candidate)
  <2>1. Placed'
    BY <1>1, <1>4 DEF Placed, Answer, Rewritten
  <2>2. Due'
    BY <1>1, <1>2, <1>4, SameOwed DEF Due, Answer
  <2> QED
    BY <1>3, <2>1, <2>2
<1>5. CASE candidate \notin site /\ Pass("fileServer")
  <2>1. Placed'
    BY <1>1, <1>5 DEF IInv, Placed, Pass, Rewritten, HasSlash
  <2> QED
    BY <1>1, <1>2, <1>3, <1>5, <2>1, SameOwed DEF Due
<1> QED
  BY <1>4, <1>5 DEF Render

\* A redirect leads to a URL with the same answer, and what the file server gives is owed.
LEMMA FileServerKeeps == IInv /\ FileServer => Placed' /\ Folder' /\ Due'
<1> SUFFICES ASSUME IInv, FileServer PROVE Placed' /\ Folder' /\ Due'
  OBVIOUS
<1>1. /\ at = "fileServer" /\ path \in Paths /\ url \in Paths /\ Reaches(path)
      /\ config.browse => ~HasSlash(path)
      /\ UNCHANGED <<config, site, asked, edits>>
      /\ Unedited => Owed = Documented(url)
  BY PathReaches DEF IInv, TypeOK, Placed, Due, FileServer, Answer, Redirect
<1>2. CASE path.leaf \in {"index.html", ""} /\ Redirect
  <2>1. Placed'
    BY <1>2 DEF Placed, Redirect, HasSlash, Home
  <2>2. Folder'
    BY <1>1, <1>2 DEF IInv, Folder, Redirect, IsDirectory, InDir
  <2>3. Unedited => ~(config.browse /\ path \in site)
    BY <1>1, <1>2 DEF IInv, Due, MarkdownNames
  <2>4. Unedited => Owed = Documented(InDir(url, "/"))
    BY <1>1, <1>2, <2>3, UrlAnswer DEF IInv
  <2>5. Documented(url)' = Documented(InDir(url, "/"))
    BY <1>1, <1>2, SameDocumented DEF Redirect
  <2>6. Due'
    BY <1>1, <1>2, <2>4, <2>5, SameOwed DEF Due, Redirect
  <2> QED
    BY <2>1, <2>2, <2>6
<1>3. CASE /\ path.leaf \notin {"index.html", "/", ""}
           /\ Answer(IF path \in site THEN "file" ELSE "notFound", path)
  <2>1. ~HasSlash(path) /\ ~IsDirectory(path)
    BY <1>3 DEF HasSlash, IsDirectory
  <2>2. Placed'
    BY <1>3 DEF IInv, Placed, Answer, Rewritten
  <2>3. Folder'
    BY <1>1, <1>3, <2>1 DEF IInv, Folder, Answer, IsDirectory
  <2>4. Unedited => Owed = DocumentedFile(path)
    BY <1>1, <1>3, <2>1, UrlAnswer DEF IInv
  <2>5. Unedited /\ path \in site /\ path.leaf \in MarkdownNames => ~config.markdown
    BY <1>1 DEF IInv, Due
  <2>6. Unedited => Owed = [kind |-> IF path \in site THEN "file" ELSE "notFound", of |-> path]
    BY <2>4, <2>5 DEF DocumentedFile
  <2>7. Due'
    BY <1>1, <1>3, <2>6, SameOwed DEF Due, Answer
  <2> QED
    BY <2>2, <2>3, <2>7
<1>4. ASSUME HasSlash(path), NEW kind, NEW of, Answer(kind, of),
             ServedDirectory(path) = [kind |-> kind, of |-> of]
      PROVE  Placed' /\ Folder' /\ Due'
  <2>1. Placed'
    BY <1>4 DEF IInv, Placed, Answer, Rewritten
  <2>2. Folder'
    BY <1>1, <1>4 DEF Folder
  <2>3. Due'
    BY <1>1, <1>4, SameOwed DEF IInv, Due, Answer
  <2> QED
    BY <2>1, <2>2, <2>3
<1> QED
  BY <1>2, <1>3, <1>4 DEF FileServer, ServedDirectory

\* An edit touches none of what the handlers keep, and nothing is owed after it.
LEMMA EditKeeps == IInv /\ Edit => Placed' /\ Folder' /\ Due'
<1> SUFFICES ASSUME IInv, Edit PROVE Placed' /\ Folder' /\ Due'
  OBVIOUS
<1>1. UNCHANGED <<config, asked, url, path, at, candidate, answer>>
  BY DEF Edit
<1>2. ~Unedited'
  BY EditsAssumption DEF IInv, TypeOK, Edit, Unedited
<1>3. Placed' /\ Folder'
  BY <1>1 DEF IInv, Placed, Rewritten, HasSlash, Folder, IsDirectory, InDir
<1> QED
  BY <1>2, <1>3 DEF Due

\* Nor does a step that changes nothing.
LEMMA StutterKeeps == IInv /\ UNCHANGED vars => Placed' /\ Folder' /\ Due'
<1> SUFFICES ASSUME IInv, UNCHANGED vars PROVE Placed' /\ Folder' /\ Due'
  OBVIOUS
<1>1. Placed' /\ Folder'
  BY DEF IInv, vars, Placed, Rewritten, HasSlash, Folder, IsDirectory, InDir
<1>2. Due'
  BY SameOwed, SameDocumented DEF IInv, vars, Due, HasSlash, ServedDirectory, InDir
<1> QED
  BY <1>1, <1>2

-----------------------------------------------------------------------------
(* The theorems *)

\* A request starts at the first handler with the URL it was asked for.
LEMMA IInvInit == Init => IInv
<1> SUFFICES ASSUME Init PROVE IInv
  OBVIOUS
<1>0. [dir |-> Root, leaf |-> "/"] \in Paths
  BY RootAssumption, SlashedMember, PathKinds
<1>1. TypeOK
  BY <1>0, EditsAssumption DEF Init, TypeOK, Handlers, Kinds, Nothing
<1>2. Placed /\ Folder
  BY DEF Init, Placed, Folder
<1>3. Due
  BY DEF Init, Due, Owed
<1> QED
  BY <1>1, <1>2, <1>3 DEF IInv

\* Every step preserves the invariant.
LEMMA IInvNext == IInv /\ [Next]_vars => IInv'
  BY TypeNext, InitialFileKeeps, BrowseKeeps, MarkdownKeeps, GuardKeeps, IndexHtmlKeeps,
     IndexHtmKeeps, SelectCandidateKeeps, RenderKeeps, FileServerKeeps, EditKeeps, StutterKeeps
  DEF IInv, Next, Handle

\* So it holds always.
LEMMA IInvInvariance == Spec => []IInv
  BY IInvInit, IInvNext, PTL DEF Spec

\* Through all handlers, redirects and edits the request, the site and the answer stay of
\* their types; in particular no handler makes up a path that is not one of the site's.
THEOREM TypeCorrect == Spec => []TypeOK
<1>1. IInv => TypeOK
  BY DEF IInv
<1> QED
  BY <1>1, IInvInvariance, PTL

\* In browse mode a folder URL gives the listing of that folder, for any number of files,
\* directories and edits of the site between one handler and the next.
THEOREM BrowseListsFolder == Spec => []BrowseListsFolders
<1>1. IInv => BrowseListsFolders
  BY DEF IInv, Folder, BrowseListsFolders
<1> QED
  BY <1>1, IInvInvariance, PTL

\* For any set of directories and any configurations, the client of an unedited site without
\* an index.htm gets what the documentation promises for the URL it was given.
THEOREM AsDocumented == Spec => []AnswerAsDocumented
<1>1. IInv => AnswerAsDocumented
  BY DEF IInv, Due, Unedited, Owed, AnswerAsDocumented
<1> QED
  BY <1>1, IInvInvariance, PTL
====
