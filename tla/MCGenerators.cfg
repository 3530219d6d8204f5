SPECIFICATION Spec
CONSTANTS
 top1 = top1
 sub1 = sub1
 sub2 = sub2
 d1 = d1
 m1 = m1
 m2 = m2
 m3 = m3
 p1 = p1
 p2 = p2
 t1 = t1
 t2 = t2
 t3 = t3
 f1 = f1
 top = top
 lib = lib
 other = other
 comp = comp
 topSub = topSub
 libSub = libSub
 compSub = compSub
 Word = Word
 Byte = Byte
 NoType = NoType
 Ignore = Ignore
 None = None
 Unset = None
 ByName = ByName
 Lower <- MCLower
 DefaultTimeout = 1000
 Walk <- MCWalk
 Marks <- MCMarks
 RootOf <- MCRootOf
 VisibleIn <- MCVisible
 HiddenIn <- MCHidden
 CalledIn = 3
 Adamant = "ada"
 EndsWith <- MCEndsWith
 AssemblyFiles <- MCAssemblyFiles
 ComponentFiles = {comp}
 PartsOf <- MCPartsOf
 InstancesOf <- MCInstancesOf
 NamedBy <- MCNamed
 Asked <- MCAsked
 Depth = 2
 NoId = NoId
 MaxId = 20
 Looks = 3
 Targets <- MCTargets
 TypeBases = {NoId, 3}
 Dependencies = {d1}
 Connectors <- MCConnectors
 Assemblies <- MCAssemblies
 Declarations <- MCDeclarations
 ModelFiles <- MCModelFiles
 DependsOn <- MCDependsOn
 Parents = {m2}
 Processes = {p1, p2}
 Persistent = FALSE
 MayFail = TRUE
 MaxEdits = 1
 Absent = Absent
 Directories = {"dir"}
 Sources = {f1}
 Builds = {"build"}
 Askers = {"asker"}
 MaxTime = 3
 Nothing = Nothing
 BuildPath <- MCBuildPath
 Docs <- MCDocs
 Kind <- MCKind
 Unit <- MCUnit
 Part <- MCPart
 Place <- MCPlace
 Generated <- MCGenerated
 Ruled <- MCRuled
 DoTarget <- MCDoTarget
 ListedIn <- MCListedIn
 DocOf <- MCDocOf
 NoModel = NoModel
 PackedTypes <- MCPackedTypes
 Parts <- MCParts
 Validated <- MCFields
 Preamble <- MCPreamble
 Letter <- MCLetter
 Dotted = {"P.Mode"}
 Predefined = {"Natural"}
 Generators = {p1, p2}
 DatabaseMayFail = TRUE
 NoRange = NoRange
INVARIANTS
 AttachmentsMatch
 LoadsIfRight
 IdsLeadBack
 RefusedForCause
 InstancesRun
 ViewsKeepTheirMeaning
 TypesAreFilled
 PacketsAreFilled
 ParametersHaveOnePlace
 RoutersLead
 SequencesEnd
 TypesComeFirst
 EnumsKeepNumbers
 PathsEndWithProject
 DerivedTypesAreKnown
 ProgramsAreWhole
 LoadIsCurrent
 SessionIsKept
 WhatIsCurrent
 DatabasesAreFilled
 RangesAreOwn
 SubmodelIsReady
PROPERTY
 DirectoryGoes
CHECK_DEADLOCK FALSE
